---- MODULE Spec2Model ----
(***************************************************************************)
(* LCExtract: light-curve extraction, per-filter statistics and 3-sigma    *)
(* outlier classification (src/src/LCExtract).                             *)
(*                                                                         *)
(* The state is one AODataClass data holder (dataretrieve.py) together     *)
(* with the arguments and the result of its last operation.  Magnitudes,   *)
(* errors and times are fixed-point integers; the float NaN is the         *)
(* reserved value NaN.  Python dicts and pandas Series keyed by filter     *)
(* code are functions whose DOMAIN is the key set; the empty dict is <<>>. *)
(* An exception that leaves a method is recorded in `raised` (the          *)
(* exception type) and `raisedIn` (the function that raised).              *)
(***************************************************************************)
EXTENDS Integers, Sequences, FiniteSets, TLC

\* ------------------------------------------------------------------ bounds
\* Longest table (rows) an archive answer or a saved file holds in the model.
MaxRows == 3
\* Longest table in the runs that load a holder more than once.
MaxRowsReload == 2
\* Longest table in the runs that look at the summary statistics only.
MaxRowsStats == 3
\* Longest table in the runs that look at the observation-time gaps.
MaxRowsTimings == 3
\* Most stars in a magnitude bin whose calibration is followed step by step.
MaxStars == 10

MaxBins == 2

MaxBinStars == 2

MaxObjects == 2

MaxRowsConfig == 2
MaxRowsIds == 3
MaxRowsRef == 3
\* Largest magnitude error and largest band when the two tests of
\* outliersExist are exercised on their own.
MaxErr == 2
MaxBand == 2
\* Most getOIDZTFinfo calls of one run when the OID cache is exercised.
MaxLookups == 3
\* Most reference stars, and their largest reference magnitude (in units of
\* 1/MagScale), when the binning of resample is exercised on its own.
MaxRefStars == 2
MaxRefMag == 8
\* Most table loads (getData / loadTable) into one holder.
MaxLoads == 2
\* Most consecutive outliersExist calls on one loaded table.
MaxCalls == 2
\* Largest magnitude handed to threeSigma when it is exercised on its own.
MaxMag == 4

\* ------------------------------------------------------------- float model
\* numpy.nan.  Every arithmetic result with a NaN operand is NaN and every
\* comparison with a NaN operand is False, as for IEEE floats.
NaN == -1000

IsNaN(x) == x = NaN

fAdd(a, b) == IF IsNaN(a) \/ IsNaN(b) THEN NaN ELSE a + b

fSub(a, b) == IF IsNaN(a) \/ IsNaN(b) THEN NaN ELSE a - b

fGe(a, b) == ~IsNaN(a) /\ ~IsNaN(b) /\ a >= b

fLe(a, b) == ~IsNaN(a) /\ ~IsNaN(b) /\ a <= b

fAbs(a) == IF IsNaN(a) THEN NaN ELSE IF a < 0 THEN 0 - a ELSE a

\* A quotient is kept exact as the pair num/den (den > 0); the pair with
\* den = 0 is the NaN quotient.
Ratio(n, d) == [num |-> n, den |-> d]

NaNRatio == Ratio(0, 0)

\* ------------------------------------------------------------ Python dicts
Keys(d) == DOMAIN d

\* d[k] = v
SetItem(d, k, v) == (k :> v) @@ d

\* The unique values of a column in order of first appearance
\* (pandas Series.unique()).
RECURSIVE Unique(_)
Unique(s) ==
    IF s = <<>> THEN <<>>
    ELSE LET rest == Unique(SubSeq(s, 1, Len(s) - 1))
             x == s[Len(s)]
         IN IF \E i \in DOMAIN rest : rest[i] = x THEN rest ELSE Append(rest, x)

Range(s) == {s[i] : i \in DOMAIN s}

\* ------------------------------------------------------------------ config
\* config.Archive records: name, code and the filters the archive serves.
ztf == [name |-> "ZTF", code |-> "z", filters |-> <<"g", "r", "i">>]

ptf == [name |-> "PTF", code |-> "r", filters |-> <<"g", "R">>]

panstarrs == [name |-> "Pan-STARRS", code |-> "p",
              filters |-> <<"g", "r", "i", "z", "y">>]

archives == [p |-> panstarrs, z |-> ztf, r |-> ptf]

\* config.medSD_c: a dict keyed by filter code whose values are the 9
\* least-squares coefficients, highest power first.  The float coefficients
\* of the source are replaced by small integers (the structure, not the
\* values, decides what threeSigma does with them).
medSD_c == [g |-> <<1, 0, 0, 0, 0, 0, 0, 0, 0>>,
            r |-> <<0, 0, 0, 0, 0, 0, 0, 1, 1>>]

\* config.threshold is {'countMin': 1, 'countMax': 30, 'countPC': 0.1,
\* 'magScalar': 1.0}; countPC is held in percent.  outliersExist takes the
\* thresholds as a parameter, so the model also feeds it other settings;
\* a run keeps one setting, as config.threshold is fixed for a run.
threshold == [countMin |-> 1, countMax |-> 30, countPC |-> 10]

Thresholds ==
    { threshold,
      [countMin |-> 1, countMax |-> 30, countPC |-> 50],
      [countMin |-> 1, countMax |-> 1, countPC |-> 100],
      [countMin |-> 0, countMax |-> 30, countPC |-> 50] }

\* ------------------------------------------------------------- utilities.py
\* What a call hands back: its value, or the exception that left it.
Return(v) == [exc |-> "", v |-> v]

Raise(e) == [exc |-> e, v |-> 0]

\* No call made yet.
Pending == [exc |-> "pending", v |-> 0]

\* threeSigma(archive, filterID, mag): y1 = 0; only for filterID == 'g' the
\* loop `for o in range(len(c)): y1 += c[o] * mag ** (len(c) - o - 1)` runs,
\* with c = config.medSD_c, the whole dict: len(c) is its number of keys and
\* c[o] subscripts the dict with the integer o, which is none of its keys
\* ('g', 'r'), so the first iteration raises KeyError.  Every other filter
\* returns 3 * 0.
threeSigma(archive, filterID, mag) ==
    IF filterID = "g"
    THEN LET c == medSD_c
         IN IF Cardinality(Keys(c)) > 0
            THEN Raise("KeyError")
            ELSE Return(3 * 0)
    ELSE Return(3 * 0)

\* ------------------------------------------------ pandas / numpy / scipy
\* The rows of tab whose filter column equals f, in row order
\* (self.table[self.table[filterField] == f]).
RowsOf(tab, f) == SelectSeq(tab, LAMBDA row : row.filterID = f)

\* One column of a frame.
Column(tab, col) == [i \in DOMAIN tab |-> tab[i][col]]

\* Mutant of groupby: every group holds the values of all rows.
groupbyAllRows(tab, group_col, col_name) ==
    [name \in Range(Column(tab, group_col)) |-> Column(tab, col_name)]

\* table.groupby(group_col)[col_name]: for every key of the group column the
\* values of col_name in the rows carrying that key.
groupby(tab, group_col, col_name) ==
    [name \in Range(Column(tab, group_col)) |->
        Column(SelectSeq(tab, LAMBDA row : row[group_col] = name), col_name)]

DropNaN(s) == SelectSeq(s, LAMBDA x : ~IsNaN(x))

RECURSIVE Sum(_)
Sum(s) == IF s = <<>> THEN 0 ELSE s[1] + Sum(Tail(s))

RECURSIVE SumSq(_)
SumSq(s) == IF s = <<>> THEN 0 ELSE s[1] * s[1] + SumSq(Tail(s))

RECURSIVE Insert(_, _)
Insert(x, s) ==
    IF s = <<>> THEN <<x>>
    ELSE IF x <= s[1] THEN <<x>> \o s ELSE <<s[1]>> \o Insert(x, Tail(s))

RECURSIVE Sort(_)
Sort(s) == IF s = <<>> THEN <<>> ELSE Insert(s[1], Sort(Tail(s)))

\* Series.sort_values(): ascending, NaN last (na_position = 'last').
sort_values(s) ==
    Sort(DropNaN(s)) \o SelectSeq(s, LAMBDA x : IsNaN(x))

\* The median of a sequence without NaN: the middle value, or the mean of the
\* two middle values (exact here: the values fed are all even or all odd).
MedianOf(v) ==
    LET w == Sort(v)
        n == Len(w)
    IN IF n = 0 THEN NaN
       ELSE IF n % 2 = 1 THEN w[(n + 1) \div 2]
       ELSE (w[n \div 2] + w[n \div 2 + 1]) \div 2

\* Series.count(): the number of non-NaN values.
pdCount(s) == Len(DropNaN(s))

\* Series.median() (skipna).
pdMedian(s) == MedianOf(DropNaN(s))

\* Series.mean() (skipna), exact as sum/count.
pdMean(s) ==
    LET v == DropNaN(s)
    IN IF Len(v) = 0 THEN NaNRatio ELSE Ratio(Sum(v), Len(v))

\* Series.std() (skipna, ddof = 1), held as its square, the sample variance
\* (n*sum(x^2) - sum(x)^2) / (n*(n-1)); NaN for fewer than 2 values.
pdStd(s) ==
    LET v == DropNaN(s)
        n == Len(v)
    IN IF n < 2 THEN NaNRatio
       ELSE Ratio(n * SumSq(v) - Sum(v) * Sum(v), n * (n - 1))

\* scipy.stats.median_abs_deviation(x) with its defaults: scale = 1.0 (no
\* 1.4826 factor) and nan_policy = 'propagate' (any NaN gives NaN).
median_abs_deviation(s) ==
    IF s = <<>> \/ \E i \in DOMAIN s : IsNaN(s[i]) THEN NaN
    ELSE LET med == MedianOf(s)
         IN MedianOf([i \in DOMAIN s |-> fAbs(s[i] - med)])

\* np.nanpercentile(x, 16) in hundredths: linear interpolation between the order
\* statistics around position 0.16 * (n - 1) of the non-NaN values.
nanpercentile16(s) ==
    LET w == Sort(DropNaN(s))
        n == Len(w)
        pos == 16 * (n - 1)
        k == pos \div 100 + 1
        frac == pos % 100
    IN IF n = 0 THEN NaN
       ELSE IF frac = 0 THEN 100 * w[k]
       ELSE 100 * w[k] + frac * (w[k + 1] - w[k])

\* Series.diff() of a sorted column: NaN first, then consecutive differences.
Diff(s) == [i \in DOMAIN s |-> IF i = 1 THEN NaN ELSE fSub(s[i], s[i - 1])]

\* np.nanstd (ddof = 0), held as its square (n*sum(x^2) - sum(x)^2) / n^2.
nanstd(s) ==
    LET v == DropNaN(s)
        n == Len(v)
    IN Ratio(n * SumSq(v) - Sum(v) * Sum(v), n * n)

\* ------------------------------------------------- dataretrieve.AODataClass
\* AODataClass.__init__: the fields of a new data holder.
NewHolder(archive) ==
    [archive |-> archive,
     table |-> <<>>,
     samples |-> <<>>, mad |-> <<>>, SD |-> <<>>, median |-> <<>>,
     mean |-> <<>>,
     filtersReturned |-> <<>>,
     id |-> <<>>, aRefmag |-> <<>>, altSD |-> <<>>,
     dataStatus |-> FALSE,
     sigma3 |-> [g |-> 0, r |-> 0],
     timeMin |-> <<>>, timeMax |-> <<>>, timeMean |-> <<>>,
     timeMed |-> <<>>, timeStd |-> <<>>,
     raised |-> "", raisedIn |-> ""]

\* An exception leaves the method: the fields keep what was assigned so far.
Throw(h, e, where) == [h EXCEPT !.raised = e, !.raisedIn = where]

Raised(h) == h.raised # ""

set_filtersReturned(h) ==
    [h EXCEPT !.filtersReturned = Unique(Column(h.table, "filterID"))]

\* The loop of setID over the ids of one filter: the id with the largest row
\* count so far wins, a later id only with a strictly larger count.  The
\* count is len(table[table[oidField] == id]): rows of any filter.
RECURSIVE maxCountOID(_, _, _, _)
maxCountOID(tab, oidArray, cur, maxC) ==
    IF oidArray = <<>> THEN cur
    ELSE LET oid == Head(oidArray)
             countOID == Len(SelectSeq(tab, LAMBDA row : row.oid = oid))
         IN IF countOID > maxC
            THEN maxCountOID(tab, Tail(oidArray), <<oid>>, countOID)
            ELSE maxCountOID(tab, Tail(oidArray), cur, maxC)

RECURSIVE setIDLoop(_, _)
setIDLoop(h, fs) ==
    IF fs = <<>> \/ Raised(h) THEN h
    ELSE LET f == Head(fs)
             oidArray == Unique(Column(RowsOf(h.table, f), "oid"))
             best == maxCountOID(h.table, oidArray, <<>>, 0)
         IN IF Len(oidArray) # 1
            THEN IF best = <<>> /\ f \notin Keys(h.id)
                 THEN Throw(h, "KeyError", "setID")
                 ELSE setIDLoop(
                        IF best = <<>> THEN h
                        ELSE [h EXCEPT !.id = SetItem(h.id, f, best[1])],
                        Tail(fs))
            ELSE setIDLoop([h EXCEPT !.id = SetItem(h.id, f, oidArray[1])],
                           Tail(fs))

setID(h) == setIDLoop(h, h.filtersReturned)

\* The refmag column of the reference-object row of an object id.
refmagOf(oid) == 10 + 2 * oid

\* setRefMag: for the ZTF archive only, one getOIDZTFinfo lookup per filter.
\* lookup[f] is what the lookup hands back: "row" (the cached or queried
\* row) or "none" (None: cache miss and empty query), on which len(response)
\* raises TypeError.
RECURSIVE setRefMagLoop(_, _, _)
setRefMagLoop(h, fs, lookup) ==
    IF fs = <<>> \/ Raised(h) THEN h
    ELSE LET f == Head(fs)
         IN IF lookup[f] = "none"
            THEN Throw(h, "TypeError", "setRefMag")
            ELSE setRefMagLoop(
                   [h EXCEPT !.aRefmag = SetItem(h.aRefmag, f, refmagOf(h.id[f]))],
                   Tail(fs), lookup)

setRefMag(h, lookup) ==
    IF h.archive.code = "z"
    THEN setRefMagLoop(h, h.filtersReturned, lookup)
    ELSE h

\* self.samples = table.groupby(group_col)[col_name].count(): a new Series.
setSamples(h, col_name, group_col) ==
    LET series == groupby(h.table, group_col, col_name)
    IN [h EXCEPT !.samples = [name \in Keys(series) |-> pdCount(series[name])]]

\* for name, group in series: self.mad[name] = ...: entries are written into
\* the dict the holder already has.
setMad(h, col_name, group_col) ==
    LET series == groupby(h.table, group_col, col_name)
    IN [h EXCEPT !.mad =
          [name \in Keys(series) |-> median_abs_deviation(series[name])] @@ h.mad]

setSD(h, col_name, group_col) ==
    LET series == groupby(h.table, group_col, col_name)
    IN [h EXCEPT !.SD = [name \in Keys(series) |-> pdStd(series[name])]]

setMedian(h, col_name, group_col) ==
    LET series == groupby(h.table, group_col, col_name)
    IN [h EXCEPT !.median = [name \in Keys(series) |-> pdMedian(series[name])]]

setMean(h, col_name, group_col) ==
    LET series == groupby(h.table, group_col, col_name)
    IN [h EXCEPT !.mean = [name \in Keys(series) |-> pdMean(series[name])]]

\* self.altSD[name] = self.median[name] - np.nanpercentile(..., 16), in
\* hundredths; entries are written into the dict the holder already has.
setAltSD(h, col_name, group_col) ==
    LET series == groupby(h.table, group_col, col_name)
    IN [h EXCEPT !.altSD =
          [name \in Keys(series) |->
             IF IsNaN(h.median[name]) \/ IsNaN(nanpercentile16(series[name]))
             THEN NaN
             ELSE 100 * h.median[name] - nanpercentile16(series[name])] @@ h.altSD]

\* for f in 'gr': if archive is ZTF and f was returned:
\*     self.sigma3[f] = threeSigma(self.archive, f, self.median[f])
RECURSIVE set3SigmaLoop(_, _)
set3SigmaLoop(h, fs) ==
    IF fs = <<>> \/ Raised(h) THEN h
    ELSE LET f == Head(fs)
         IN IF h.archive.name = "ZTF" /\ f \in Range(h.filtersReturned)
            THEN LET y == threeSigma(h.archive, f, h.median[f])
                 IN IF y.exc # ""
                    THEN Throw(h, y.exc, "threeSigma")
                    ELSE set3SigmaLoop(
                           [h EXCEPT !.sigma3 = SetItem(h.sigma3, f, y.v)],
                           Tail(fs))
            ELSE set3SigmaLoop(h, Tail(fs))

set3Sigma(h) == set3SigmaLoop(h, <<"g", "r">>)

\* Mutant of timingOf: the rows are not sorted by time before diff().
timingOfUnsorted(tab, f) ==
    LET timeDiff == Diff(Column(RowsOf(tab, f), "mjd"))
        gaps == DropNaN(timeDiff)
    IN IF gaps # <<>>
       THEN [min |-> Sort(gaps)[1], max |-> Sort(gaps)[Len(gaps)],
             mean |-> Ratio(Sum(gaps), Len(gaps)),
             med |-> MedianOf(gaps), std |-> nanstd(timeDiff)]
       ELSE [min |-> 0, max |-> 0, mean |-> Ratio(0, 1), med |-> 0,
             std |-> Ratio(0, 1)]

\* Mutant of timingOf: no `np.all(np.isnan(timeDiff))` test, the nan-
\* functions run on differences that are all NaN.
timingOfNoGuard(tab, f) ==
    LET filterDataSort == sort_values(Column(RowsOf(tab, f), "mjd"))
        timeDiff == Diff(filterDataSort)
        gaps == DropNaN(timeDiff)
    IN IF gaps # <<>>
       THEN [min |-> Sort(gaps)[1], max |-> Sort(gaps)[Len(gaps)],
             mean |-> Ratio(Sum(gaps), Len(gaps)),
             med |-> MedianOf(gaps), std |-> nanstd(timeDiff)]
       ELSE [min |-> NaN, max |-> NaN, mean |-> NaNRatio, med |-> NaN,
             std |-> NaNRatio]

\* analyseTimings: per returned filter, the gaps between its rows sorted by
\* time; min/max/mean/median/std of the gaps, or 0.0 when all gaps are NaN.
timingOf(tab, f) ==
    LET filterDataSort == sort_values(Column(RowsOf(tab, f), "mjd"))
        timeDiff == Diff(filterDataSort)
        gaps == DropNaN(timeDiff)
    IN IF gaps # <<>>
       THEN [min |-> Sort(gaps)[1], max |-> Sort(gaps)[Len(gaps)],
             mean |-> Ratio(Sum(gaps), Len(gaps)),
             med |-> MedianOf(gaps), std |-> nanstd(timeDiff)]
       ELSE [min |-> 0, max |-> 0, mean |-> Ratio(0, 1), med |-> 0,
             std |-> Ratio(0, 1)]

RECURSIVE analyseTimingsLoop(_, _)
analyseTimingsLoop(h, fs) ==
    IF fs = <<>> THEN h
    ELSE LET f == Head(fs)
             t == timingOf(h.table, f)
         IN analyseTimingsLoop(
              [h EXCEPT !.timeMin = SetItem(h.timeMin, f, t.min),
                        !.timeMax = SetItem(h.timeMax, f, t.max),
                        !.timeMean = SetItem(h.timeMean, f, t.mean),
                        !.timeMed = SetItem(h.timeMed, f, t.med),
                        !.timeStd = SetItem(h.timeStd, f, t.std)],
              Tail(fs))

analyseTimings(h) == analyseTimingsLoop(h, h.filtersReturned)

\* _getStats: the setters in the order of the source; an exception in
\* set3Sigma leaves before analyseTimings.
_getStats(h) ==
    LET h1 == setSamples(h, "mag", "filterID")
        h2 == setMad(h1, "mag", "filterID")
        h3 == setSD(h2, "mag", "filterID")
        h4 == setMedian(h3, "mag", "filterID")
        h5 == setMean(h4, "mag", "filterID")
        h6 == setAltSD(h5, "mag", "filterID")
        h7 == set3Sigma(h6)
    IN IF Raised(h7) THEN h7 ELSE analyseTimings(h7)

prepRawData(h, lookup) ==
    LET h1 == set_filtersReturned(h)
        h2 == setID(h1)
        h3 == IF Raised(h2) THEN h2 ELSE setRefMag(h2, lookup)
    IN IF Raised(h3) THEN h3 ELSE _getStats(h3)

\* config.badResponse
badResponse == <<FALSE, <<>>>>

\* getLightCurveData: response is what the archive's retrieval function
\* handed back, (status, table); the holder takes the table on success.
\* The first component of the result is the method's return value.
getLightCurveData(h, response) ==
    IF h.archive.name \in {"ZTF", "Pan-STARRS", "PTF"}
    THEN IF response[1]
         THEN <<TRUE, [h EXCEPT !.table = response[2]]>>
         ELSE <<FALSE, h>>
    ELSE <<FALSE, h>>

\* getData: (return value, holder).  When prepRawData raises, getData does
\* not return and dataStatus stays as it was.
getData(h, response, lookup) ==
    LET got == getLightCurveData(h, response)
        h1 == prepRawData(got[2], lookup)
    IN IF got[1]
       THEN IF Raised(h1) THEN <<FALSE, h1>>
            ELSE <<TRUE, [h1 EXCEPT !.dataStatus = TRUE]>>
       ELSE <<FALSE, got[2]>>

\* loadTable: self.table = pd.read_csv(self.filename); self.prepRawData()
loadTable(h, fileTable, lookup) ==
    prepRawData([h EXCEPT !.table = fileTable], lookup)

\* ------------------------------------------------------------ outliersExist
\* Mutants of highTest: `>` for `>=`, and `not <` for `>=` (true of NaN).
fLt(a, b) == ~IsNaN(a) /\ ~IsNaN(b) /\ a < b

highTestStrict(row, upLim) ==
    fGe(fSub(row.mag, row.magerr), upLim) /\ fSub(row.mag, row.magerr) # upLim

highTestNotLess(row, upLim) == ~fLt(fSub(row.mag, row.magerr), upLim)

\* (mag - magErr) >= upLim
highTest(row, upLim) == fGe(fSub(row.mag, row.magerr), upLim)

\* Mutant of lowTest: the error is subtracted, as in the high test.
lowTestMinus(row, loLim) == fLe(fSub(row.mag, row.magerr), loLim)

\* (mag + magErr) <= loLim
lowTest(row, loLim) == fLe(fAdd(row.mag, row.magerr), loLim)

\* self.table['outlier'] = 'inside'
resetOutlier(tab) == [i \in DOMAIN tab |-> [tab[i] EXCEPT !.outlier = "inside"]]

\* Mutant of tagFilter: the error is subtracted from the magnitude column in
\* place (`table[mag] -= table[magErr]`) before the comparison with upLim.
tagFilterInPlace(tab, f, upLim, loLim) ==
    LET t0 == [i \in DOMAIN tab |->
                 IF tab[i].filterID = f
                 THEN [tab[i] EXCEPT !.mag = fSub(tab[i].mag, tab[i].magerr)]
                 ELSE tab[i]]
        t1 == [i \in DOMAIN t0 |->
                 IF t0[i].filterID = f /\ fGe(t0[i].mag, upLim)
                 THEN [t0[i] EXCEPT !.outlier = "high"] ELSE t0[i]]
    IN [i \in DOMAIN t1 |->
          IF t1[i].filterID = f /\ lowTest(t1[i], loLim)
          THEN [t1[i] EXCEPT !.outlier = "low"] ELSE t1[i]]

\* Mutant of tagFilter: the 'low' assignment first, then 'high'.
tagFilterLowFirst(tab, f, upLim, loLim) ==
    LET t1 == [i \in DOMAIN tab |->
                 IF tab[i].filterID = f /\ lowTest(tab[i], loLim)
                 THEN [tab[i] EXCEPT !.outlier = "low"] ELSE tab[i]]
    IN [i \in DOMAIN t1 |->
          IF t1[i].filterID = f /\ highTest(t1[i], upLim)
          THEN [t1[i] EXCEPT !.outlier = "high"] ELSE t1[i]]

\* The two table.loc[...] assignments for filter f: 'high' first, then 'low'.
tagFilter(tab, f, upLim, loLim) ==
    LET t1 == [i \in DOMAIN tab |->
                 IF tab[i].filterID = f /\ highTest(tab[i], upLim)
                 THEN [tab[i] EXCEPT !.outlier = "high"] ELSE tab[i]]
    IN [i \in DOMAIN t1 |->
          IF t1[i].filterID = f /\ lowTest(t1[i], loLim)
          THEN [t1[i] EXCEPT !.outlier = "low"] ELSE t1[i]]

\* len(table[(table[filterField] == f) & (table['outlier'] != 'inside')])
countOutliers(tab, f) ==
    Len(SelectSeq(tab, LAMBDA row : row.filterID = f /\ row.outlier # "inside"))

\* Mutant of accepted: the percentage test as `<` instead of `<=`.
acceptedStrict(outlierCount, samples, thr) ==
    /\ thr.countMin <= outlierCount /\ outlierCount <= thr.countMax
    /\ outlierCount < (samples * thr.countPC) \div 100

\* withinCountThreshold and underTotalCountPC; int() truncates the product
\* samples * countPC (countPC in percent, both factors >= 0).
accepted(outlierCount, samples, thr) ==
    /\ thr.countMin <= outlierCount /\ outlierCount <= thr.countMax
    /\ outlierCount <= (samples * thr.countPC) \div 100

\* Mutant of skipped: no filter is skipped.
skippedNone(f) == FALSE

\* Whether the loop skips a filter with verdict False (`if f == 'i'`).
skipped(f) == f = "i"

\* The loop over filtersReturned.  st holds the holder, the response dict
\* and, per filter, the outlierCount computed for it.
RECURSIVE outliersLoop(_, _, _)
outliersLoop(st, fs, thr) ==
    IF fs = <<>> \/ Raised(st.h) THEN st
    ELSE LET f == Head(fs)
             h == st.h
         IN IF skipped(f)
            THEN outliersLoop([st EXCEPT !.response = SetItem(@, f, FALSE)],
                              Tail(fs), thr)
            ELSE IF f \notin Keys(h.median) \/ f \notin Keys(h.sigma3)
            THEN [st EXCEPT !.h = Throw(h, "KeyError", "outliersExist"),
                            !.failedOn = f]
            ELSE LET upLim == fAdd(h.median[f], h.sigma3[f])
                     loLim == fSub(h.median[f], h.sigma3[f])
                     tab == tagFilter(h.table, f, upLim, loLim)
                     outlierCount == countOutliers(tab, f)
                 IN outliersLoop(
                      [h |-> [h EXCEPT !.table = tab],
                       response |->
                          SetItem(st.response, f,
                                  accepted(outlierCount, h.samples[f], thr)),
                       outlierCount |-> SetItem(st.outlierCount, f, outlierCount),
                       failedOn |-> st.failedOn],
                      Tail(fs), thr)

\* outliersExist(a, threshold): the holder with its tagged table, the
\* response dict handed back (lost when an exception leaves the method) and
\* the per-filter outlier counts.
outliersExist(h, thr) ==
    outliersLoop([h |-> [h EXCEPT !.table = resetOutlier(h.table)],
                  response |-> <<>>, outlierCount |-> <<>>, failedOn |-> ""],
                 h.filtersReturned, thr)

\* ----------------------------------------------------- SDSSRefs/config.py
\* iterations (to get to a min)
optCycles == 3

\* data quality: normal distribution sample check fit
sigma == 3

\* ------------------------------------------------- SDSSRefs/SDSS.SDSSdata
\* One filter's columns of the star table are modelled: a star is
\* [ZTFObject, Samples, SD, Included] for ZTFObject, ZTF{f}Samples, ZTF{f}SD
\* and Stat{f}Included.  Statistics are exact quotients; SDofSD is held as
\* its square, the variance.

\* np.nanmedian of a column.
nanmedian(s) ==
    LET v == Sort(DropNaN(s))
        n == Len(v)
    IN IF n = 0 THEN NaNRatio
       ELSE IF n % 2 = 1 THEN Ratio(v[(n + 1) \div 2], 1)
       ELSE Ratio(v[n \div 2] + v[n \div 2 + 1], 2)

\* np.nanmean of a column.
nanmean(s) ==
    LET v == DropNaN(s)
    IN IF Len(v) = 0 THEN NaNRatio ELSE Ratio(Sum(v), Len(v))

\* SDSSdata.__init__ (the entries of filter f).
NewSDSSdata(mag) ==
    [samples |-> <<>>, mag |-> mag,
     totalSamples |-> 0,
     medianOfSD |-> Ratio(0, 1), SDofSD |-> Ratio(0, 1),
     meanOfSD |-> Ratio(0, 1),
     usedSamples |-> 0,
     meanSamplesLC |-> Ratio(0, 1)]

\* SDSSdata.setTable
setTable(d, tableData) == [d EXCEPT !.samples = tableData]

_setDetailStats(d, p) ==
    [d EXCEPT !.medianOfSD = nanmedian(Column(p, "SD")),
              !.SDofSD = nanstd(Column(p, "SD")),
              !.meanOfSD = nanmean(Column(p, "SD")),
              !.meanSamplesLC = nanmean(Column(p, "Samples"))]

\* samples[samples['Stat{f}Included'] == True]
includedRows(tab) == SelectSeq(tab, LAMBDA row : row.Included)

\* SDSSdata.statsOfStats: stars with a NaN SD are marked not-included; p is
\* the rows with ZTFObject; usedSamples counts the rows of p with samples;
\* the detail statistics are taken over p.
statsOfStats(d) ==
    LET t == [i \in DOMAIN d.samples |->
                IF IsNaN(d.samples[i].SD)
                THEN [d.samples[i] EXCEPT !.Included = FALSE]
                ELSE d.samples[i]]
        p == SelectSeq(t, LAMBDA row : row.ZTFObject)
        d1 == [d EXCEPT !.samples = t, !.totalSamples = Len(p),
                        !.usedSamples =
                           Len(SelectSeq(p, LAMBDA row : row.Samples # 0))]
    IN IF d1.totalSamples # 0 /\ d1.usedSamples # 0
          /\ ~(\A i \in DOMAIN p : IsNaN(p[i].SD))
       THEN _setDetailStats(d1, p)
       ELSE d1

\* x > med + sigma * sd, for the exact quotients med and var = sd^2:
\* x - med > 0 and (x - med)^2 > sigma^2 * var.  False when any is NaN.
above(x, med, var) ==
    /\ ~IsNaN(x) /\ med.den # 0 /\ var.den # 0
    /\ x * med.den - med.num > 0
    /\ (x * med.den - med.num) * (x * med.den - med.num) * var.den
          > sigma * sigma * var.num * med.den * med.den

\* x < med - sigma * sd.
below(x, med, var) ==
    /\ ~IsNaN(x) /\ med.den # 0 /\ var.den # 0
    /\ med.num - x * med.den > 0
    /\ (med.num - x * med.den) * (med.num - x * med.den) * var.den
          > sigma * sigma * var.num * med.den * med.den

\* Mutant of outsideBand: only the upper limit is tested.
outsideBandAbove(x, med, var) == above(x, med, var)

outsideBand(x, med, var) == above(x, med, var) \/ below(x, med, var)

\* Mutant of clip: the flag is set anew for every star, True inside the band.
clipReset(d) ==
    [d EXCEPT !.samples =
        [i \in DOMAIN d.samples |->
           [d.samples[i] EXCEPT !.Included =
               ~outsideBand(d.samples[i].SD, d.medianOfSD, d.SDofSD)]]]

\* samples['Stat{f}Included'][np.where(SD > ... | SD < ...)] = False
clip(d) ==
    [d EXCEPT !.samples =
        [i \in DOMAIN d.samples |->
           IF outsideBand(d.samples[i].SD, d.medianOfSD, d.SDofSD)
           THEN [d.samples[i] EXCEPT !.Included = FALSE]
           ELSE d.samples[i]]]

\* Mutant of whileTest: no bound on the number of cycles.
whileTestUnbounded(d, count) == Len(includedRows(d.samples)) # 0

\* The condition of optimiseStats' while loop, p being the included rows.
whileTest(d, count) == Len(includedRows(d.samples)) # 0 /\ count < optCycles


\* Mutant of recompute: the statistics are recomputed whenever stars
\* survive, whether or not their number changed.
recomputeAlways(d1, p) == Len(p) # 0

\* `if len(p) and len(p) != self.usedSamples[f]`
recompute(d1, p) == Len(p) # 0 /\ Len(p) # d1.usedSamples

\* Mutant of recomputeOver: an empty surviving set is taken over as well.
recomputeOverAny(d1, p) ==
    IF Len(p) # d1.usedSamples
    THEN [d |-> _setDetailStats([d1 EXCEPT !.usedSamples = Len(p)], p),
          brk |-> FALSE]
    ELSE [d |-> d1, brk |-> TRUE]

\* The if/else at the end of the loop body: new statistics over p, or break.
recomputeOver(d1, p) ==
    IF recompute(d1, p)
    THEN [d |-> _setDetailStats([d1 EXCEPT !.usedSamples = Len(p)], p),
          brk |-> FALSE]
    ELSE [d |-> d1, brk |-> TRUE]

\* One pass through the body of the while loop.
whileBody(d, count) ==
    LET d1 == clip(d)
        r == recomputeOver(d1, includedRows(d1.samples))
    IN [d |-> r.d, count |-> IF r.brk THEN count ELSE count + 1, brk |-> r.brk]

RECURSIVE optimiseLoop(_, _)
optimiseLoop(d, count) ==
    IF whileTest(d, count)
    THEN LET r == whileBody(d, count)
         IN IF r.brk THEN r.d ELSE optimiseLoop(r.d, r.count)
    ELSE d

\* SDSSdata.optimiseStats
optimiseStats(d) == IF d.usedSamples # 0 THEN optimiseLoop(d, 0) ELSE d

\* SDSSdata.getStats
getStats(d, f) ==
    [mag |-> d.mag, filter |-> f, totalSamplesMag |-> d.totalSamples,
     MedianOfSD |-> d.medianOfSD, SDofSD |-> d.SDofSD, MeanOfSD |-> d.meanOfSD,
     UsedSamplesMag |-> d.usedSamples, MeanSamplesLC |-> d.meanSamplesLC]

\* ------------------------------------------- SDSSRefs/outputStats.Stats
\* Stats.__init__: a table without rows.
NewStats == <<>>

\* Stats.add_row
add_row(stats, statsRow) == Append(stats, statsRow)

\* stats['SDofSD'] != 0 for a row (true of NaN).
nonBlank(row) == row.SDofSD.den = 0 \/ row.SDofSD.num # 0

\* Mutant of removeBlanks: every row is kept.
removeBlanksNone(stats) == stats

\* Stats.removeBlanks: self.stats = self.stats[self.stats['SDofSD'] != 0]
removeBlanks(stats) == SelectSeq(stats, nonBlank)

\* ------------------------------------------------- SDSSRefs/resample.py
\* The body of `for mag in arange(...)` for the rows filterRange of one bin:
\* an empty range is passed over, for any other a new SDSSdata object is
\* calibrated and its statistics are added to the table.
processBin(stats, f, mag, filterRange) ==
    IF Len(filterRange) = 0 THEN stats
    ELSE add_row(stats,
            getStats(optimiseStats(statsOfStats(
                        setTable(NewSDSSdata(mag), filterRange))), f))

\* ------------------------------------------------- retrieval per archive
\* What the archive's server does with a request.
Servers == {"ok", "empty", "http400", "http500", "unreachable"}

\* getLightCurveDataZTF: an HTTPError of urlopen gives badResponse, as does a
\* table without rows; any other exception of urlopen (URLError when the
\* server cannot be reached) leaves the function.
getLightCurveDataZTF(srv, tab) ==
    CASE srv = "ok" -> Return(<<TRUE, tab>>)
      [] srv = "unreachable" -> Raise("URLError")
      [] OTHER -> Return(badResponse)

\* getLightCurveDataPTF: an HTTPError with code 400 is printed, after which
\* `len(votable)` reads a name that was never bound; any other error is
\* raised again or was never caught.
getLightCurveDataPTF(srv, tab) ==
    CASE srv = "ok" -> Return(<<TRUE, tab>>)
      [] srv = "empty" -> Return(badResponse)
      [] srv = "http400" -> Raise("UnboundLocalError")
      [] srv = "http500" -> Raise("HTTPError")
      [] OTHER -> Raise("ConnectionError")

\* getLightCurveDataPanSTARRS: ps1cone ends in requests' raise_for_status,
\* whose HTTPError is not the urllib HTTPError the except clause names.
getLightCurveDataPanSTARRS(srv, tab) ==
    CASE srv = "ok" -> Return(<<TRUE, tab>>)
      [] srv = "empty" -> Return(badResponse)
      [] srv \in {"http400", "http500"} -> Raise("HTTPError")
      [] OTHER -> Raise("ConnectionError")

\* The call getLightCurveData makes for the holder's archive (any other
\* archive makes none: getLightCurveData returns False by itself).
retrieve(archive, srv, tab) ==
    CASE archive.name = "ZTF" -> getLightCurveDataZTF(srv, tab)
      [] archive.name = "Pan-STARRS" -> getLightCurveDataPanSTARRS(srv, tab)
      [] archive.name = "PTF" -> getLightCurveDataPTF(srv, tab)
      [] OTHER -> Return(badResponse)

\* bool(d) of a dict: True unless the dict is empty.
truthy(d) == Keys(d) # {}

\* The body of LCExtract's `for a in archiveList` for a new holder h:
\* getData(), and for ZTF data outliersExist(archives[a], config.threshold),
\* whose dict is the condition of `if outliersFound[a]:`; in its branch the
\* object's ZTFOutliers is set and `config.checkOutliers` is read, an
\* attribute config.py does not define (AttributeError).
\* returned is what getData handed back, "raised" when it did not return;
\* found is the dict stored in outliersFound[a] (empty when none was), and
\* flagged tells whether ZTFOutliers was set.
archiveBody(h, srv, tab, lookup) ==
    LET resp == retrieve(h.archive, srv, tab)
        got == getData(h, resp.v, lookup)
        oe == outliersExist(got[2], threshold)
    IN IF resp.exc # ""
       THEN [h |-> [h EXCEPT !.raised = resp.exc, !.raisedIn = "getLightCurveData"],
             returned |-> "raised", found |-> <<>>, flagged |-> FALSE]
       ELSE IF Raised(got[2])
       THEN [h |-> got[2], returned |-> "raised", found |-> <<>>,
             flagged |-> FALSE]
       ELSE IF got[1] /\ h.archive.name = "ZTF"
       THEN IF Raised(oe.h)
            THEN [h |-> oe.h, returned |-> "True", found |-> <<>>,
                  flagged |-> FALSE]
            ELSE IF truthy(oe.response)
            THEN [h |-> Throw(oe.h, "AttributeError", "LCExtract"),
                  returned |-> "True", found |-> oe.response, flagged |-> TRUE]
            ELSE [h |-> oe.h, returned |-> "True", found |-> oe.response,
                  flagged |-> FALSE]
       ELSE [h |-> got[2], returned |-> IF got[1] THEN "True" ELSE "False",
             found |-> <<>>, flagged |-> FALSE]

\* What a Python call can hand back besides a frame.
None == [kind |-> "None", rows |-> <<>>]

False == [kind |-> "False", rows |-> <<>>]

DataFrame(rows) == [kind |-> "DataFrame", rows |-> rows]

\* Mutant of refZTFobj: a retrieval without data is answered with False.
refZTFobjFalse(srv, tab, filefracday) ==
    LET response == getLightCurveDataZTF(srv, tab)
    IN IF response.exc # "" THEN Raise(response.exc)
       ELSE IF response.v[1]
       THEN Return(DataFrame(SelectSeq(response.v[2],
                      LAMBDA row : row.filefracday = filefracday)))
       ELSE Return(False)

\* refZTFobj: the light curves around the position, restricted by time and
\* magnitude at the server; of a good response the rows of the exposure
\* filefracday are returned (`df is not None` holds for every frame); after
\* a bad response the function runs to its end and returns None.  An
\* exception of the retrieval leaves refZTFobj as well.
refZTFobj(srv, tab, filefracday) ==
    LET response == getLightCurveDataZTF(srv, tab)
    IN IF response.exc # "" THEN Raise(response.exc)
       ELSE IF response.v[1]
       THEN Return(DataFrame(SelectSeq(response.v[2],
                      LAMBDA row : row.filefracday = filefracday)))
       ELSE Return(None)

\* ------------------------------------------------------ SDSSRefs/resample
\* Reference magnitudes are fixed point, in units of 1/MagScale magnitude
\* (1/16, exact in binary floating point as well).
MagScale == 16

\* config.stepMag = 0.25
stepMag == MagScale \div 4

\* getRange: mod = int(1 / stepMag); the smallest and the largest magnitude
\* truncated to a multiple of 1/mod (int() of a value >= 0), the largest
\* moved one multiple up; bins = int((maxVal - minVal) / stepMag).
getRange(mags) ==
    LET mod == MagScale \div stepMag
        lo == CHOOSE m \in Range(mags) : \A x \in Range(mags) : m <= x
        hi == CHOOSE m \in Range(mags) : \A x \in Range(mags) : m >= x
        minVal == ((lo * mod) \div MagScale) * (MagScale \div mod)
        maxVal == ((hi * mod) \div MagScale + 1) * (MagScale \div mod)
    IN [minVal |-> minVal, maxVal |-> maxVal,
        bins |-> (maxVal - minVal) \div stepMag]

\* numpy.arange(start, stop, step): start + k * step for every k >= 0 with
\* start + k * step < stop.
arange(start, stop, step) ==
    [k \in 1..((stop - start + step - 1) \div step) |-> start + (k - 1) * step]

\* Series.between(left, right): inclusive at both ends.
between(x, left, right) == left <= x /\ x <= right

\* The loop of resample over the bin centres: for every centre the rows of
\* fullDF (by index) that make up its filterRange.
filterRanges(mags) ==
    LET r == getRange(mags)
        centres == arange(r.minVal, r.maxVal, stepMag)
    IN [k \in DOMAIN centres |->
          [mag |-> centres[k],
           rows |-> {i \in DOMAIN mags :
                       between(mags[i], centres[k] - stepMag \div 2,
                               centres[k] + stepMag \div 2)}]]

\* --------------------------------------------------------- ztf.OIDListFile
\* The OID list: df is the frame read from the file when the module is
\* imported (getFile), file the rows of data/LC/oidList.csv; a row is held
\* as its oid.
NewOIDListFile(rows) == [df |-> rows, file |-> rows]

\* add: the rows are appended to the file; self.df is left as it is.
add(l, response) == [l EXCEPT !.file = l.file \o response]

\* inList: the rows of the frame whose oid is OID.
inList(l, OID) == SelectSeq(l.df, LAMBDA row : row = OID)

\* ZTFObjectQuery for `oid=<oid>`: the rows of the service's answer, or
\* False after an HTTPError.
ZTFObjectQuery(answer, oid) ==
    CASE answer = "row" -> Return(<<oid>>)
      [] answer = "empty" -> Return(<<>>)
      [] OTHER -> Return(False)

\* getOIDZTFinfo: (OID list, response, whether the service was queried).
\* len(False) raises TypeError.
getOIDZTFinfo(l, oid, answer) ==
    LET found == inList(l, oid)
        queryReturn == ZTFObjectQuery(answer, oid).v
    IN IF Len(found) > 0
       THEN [l |-> l, response |-> Return(DataFrame(found)), queried |-> FALSE]
       ELSE IF queryReturn = False
       THEN [l |-> l, response |-> Raise("TypeError"), queried |-> TRUE]
       ELSE IF Len(queryReturn) > 0
       THEN [l |-> add(l, queryReturn),
             response |-> Return(DataFrame(queryReturn)), queried |-> TRUE]
       ELSE [l |-> l, response |-> Return(None), queried |-> TRUE]

\* ------------------------------------------------------------------- inputs
\* Magnitudes (fixed point, all even so that the mean of two of them is
\* exact) and magnitude errors (>= 0).
Mags == {10, 12}

Errs == {0, 2}

\* Magnitudes of the runs that look at the summary statistics only.
MagsStats == {10, 12, 14}

\* The (filter, magnitude, error) triples a row is built from: every finite
\* magnitude with every error, and the magnitude NaN.
RowSet(filters, mags, errs) ==
    [filterID : filters, mag : mags, magerr : errs]
        \cup [filterID : filters, mag : {NaN}, magerr : {0}]

\* The filter codes a retrieval hands back per archive (ZTF maps zg/zr/zi to
\* g/r/i, PTF maps fid 1/2 to g/R; of Pan-STARRS' five, two are fed).
FedFilters(archive) ==
    CASE archive.name = "ZTF" -> {"g", "r", "i"}
      [] archive.name = "PTF" -> {"g", "R"}
      [] OTHER -> {"r", "z"}

\* In an archive each filter of an object has its own object id.
oidOf(f) ==
    CASE f = "g" -> 1 [] f = "r" -> 2 [] f = "i" -> 3
      [] f = "z" -> 4 [] f = "y" -> 5 [] OTHER -> 6

\* A table as a retrieval or read_csv builds it: no 'outlier' column yet
\* (outlier = ""), observation i at time 2*i.
MakeTable(rows) ==
    [i \in DOMAIN rows |->
        [filterID |-> rows[i].filterID, mag |-> rows[i].mag,
         magerr |-> rows[i].magerr, oid |-> oidOf(rows[i].filterID),
         mjd |-> 2 * i, outlier |-> ""]]

\* Observation times of the runs that look at the gaps (all even, so that
\* the median of the gaps is exact), and the tables of those runs: rows in
\* any time order, times possibly equal or missing (NaN).
Times == {2, 4, 8}

TimedTable(rows) ==
    [i \in DOMAIN rows |->
        [filterID |-> rows[i].filterID, mag |-> 10, magerr |-> 0,
         oid |-> oidOf(rows[i].filterID), mjd |-> rows[i].mjd, outlier |-> ""]]

TimedTables(filters, maxRows) ==
    {TimedTable(rows) :
       rows \in UNION {[1..n -> [filterID : filters, mjd : Times \cup {NaN}]] :
                         n \in 1..maxRows}}

\* Tables whose rows carry their own object id: the archive's response, or
\* the saved file, lists the light curves of several objects near the
\* position, and nothing in the holder ties an object id to one filter.
Oids == {1, 2, 3}

IdTable(rows) ==
    [i \in DOMAIN rows |->
        [filterID |-> rows[i].filterID, mag |-> 10, magerr |-> 0,
         oid |-> rows[i].oid, mjd |-> 0, outlier |-> ""]]

IdTables(filters, maxRows) ==
    {IdTable(rows) :
       rows \in UNION {[1..n -> [filterID : filters, oid : Oids]] :
                         n \in 1..maxRows}}

\* The exposures (filefracday) of the rows a server holds near a position.
FracDays == {1, 2}

RefTables(maxRows) ==
    UNION {[1..n -> [filefracday : FracDays, mag : Mags]] : n \in 1..maxRows}

\* The ZTF{f}RefMag column of fullDF: the reference magnitudes of the stars
\* of one filter that were matched to an OID row.
RefMags(maxStars, maxMag) ==
    UNION {[1..n -> 0..maxMag] : n \in 1..maxStars}

\* What data/LC/oidList.csv holds when a run starts: a row for some ids.
OIDFiles ==
    {<<>>, <<1>>, <<2>>, <<1, 2>>, <<2, 3>>, <<1, 2, 3>>}

\* What the TAP service does with a query.
Answers == {"row", "empty", "failed"}

TablesOf(rowSet, maxRows) ==
    {MakeTable(rows) : rows \in UNION {[1..n -> rowSet] : n \in 1..maxRows}}

\* scenario "flow": a holder is loaded once, as LCExtract and the SDSSRefs
\* controller do; "reload": a holder is loaded repeatedly; "stats": a holder
\* is loaded once and only its statistics are looked at.
Tables(scen, archive) ==
    CASE scen = "reload" ->
           TablesOf([filterID : FedFilters(archive), mag : {10}, magerr : {0}],
                    MaxRowsReload)
      [] scen = "stats" ->
           TablesOf(RowSet(FedFilters(archive), MagsStats, {0}), MaxRowsStats)
      [] scen = "timings" -> TimedTables(FedFilters(archive), MaxRowsTimings)
      [] scen = "config" ->
           TablesOf(RowSet(FedFilters(archive), Mags, {0}), MaxRowsConfig)
      [] scen = "ids" -> IdTables({"r", "i"}, MaxRowsIds)
      [] OTHER -> TablesOf(RowSet(FedFilters(archive), Mags, Errs), MaxRows)

\* The threshold dicts a run can be configured with: config.threshold is a
\* plain module attribute, so in scenario "config" also a dict whose
\* countMin lies above its countMax.
ThresholdsOf(scen) ==
    IF scen = "config"
    THEN Thresholds \cup {[countMin |-> 2, countMax |-> 1, countPC |-> 10]}
    ELSE Thresholds

LoadLimit(scen) == IF scen = "reload" THEN MaxLoads ELSE 1

\* What the reference-object lookups of one prepRawData hand back: all find
\* their row, or the lookup of one filter finds none.
Lookups(tab) ==
    LET fs == Range(Column(tab, "filterID"))
    IN {[f \in fs |-> IF f = miss THEN "none" ELSE "row"] : miss \in fs \cup {""}}

TSArgs ==
    [archive : {ztf, ptf, panstarrs},
     filterID : {"g", "r", "i", "z", "y", "R"},
     mag : (0..MaxMag) \cup {NaN}]

\* The rows a star table can hold, for one filter: stars with a light curve
\* of several measurements and a per-star SD; a star with one measurement
\* (its SD is NaN); a star whose light curve has no measurement in this
\* filter (the column defaults of addColumns: 0 samples, SD 0.0, not
\* included); an object without ZTF data.
StarSDs == <<0, 1, 4, 12>>

StarTypes ==
    [i \in DOMAIN StarSDs |->
        [ZTFObject |-> TRUE, Samples |-> 5, SD |-> StarSDs[i], Included |-> TRUE]]
    \o << [ZTFObject |-> TRUE, Samples |-> 1, SD |-> NaN, Included |-> TRUE],
          [ZTFObject |-> TRUE, Samples |-> 0, SD |-> 0, Included |-> FALSE],
          [ZTFObject |-> FALSE, Samples |-> 0, SD |-> 0, Included |-> FALSE] >>

\* The star tables of at most n rows over the given types (the operations
\* on a table do not look at the order of its rows; one order is fed).
RECURSIVE BinsOf(_, _)
BinsOf(types, n) ==
    IF types = <<>> THEN {<<>>}
    ELSE UNION {{[i \in 1..c |-> Head(types)] \o b : b \in BinsOf(Tail(types), n - c)} :
                   c \in 0..n}

Bins(n) == BinsOf(StarTypes, n) \ {<<>>}

\* The rows resample finds in the range of one magnitude step: stars with
\* measurements in the filter (a star measured once has no SD), or none.
BinRanges(n) ==
    BinsOf(<<StarTypes[1], StarTypes[2], StarTypes[Len(StarSDs) + 1]>>, n)

\* The magnitude steps of resample's two loops, filter g before filter r,
\* each with the rows in its range.
BinSteps(maxBins, maxStars) ==
    UNION {{[k \in 1..n |-> [f |-> IF k <= ng THEN "g" ELSE "r", mag |-> k,
                              filterRange |-> ranges[k]]] :
               ranges \in [1..n -> BinRanges(maxStars)]} :
             n \in 1..maxBins, ng \in 0..maxBins}

\* The archive lists LCExtract can be run over: codes of config.archives,
\* each at most once.
ArchiveLists ==
    {l \in UNION {[1..n -> DOMAIN archives] : n \in 1..3} :
        \A i, j \in DOMAIN l : i # j => l[i] # l[j]}

\* The tables a successful retrieval hands back in these runs.
RetrievedTables(archive) ==
    TablesOf([filterID : FedFilters(archive), mag : {10}, magerr : {0}], 1)

\* -------------------------------------------------------------------- state
VARIABLES
    scenario,        \* the runs explored: "flow", "reload", "stats", "timings", ...
    archive, table, samples, mad, SD, median, mean, filtersReturned, id,
    aRefmag, altSD, dataStatus, sigma3,
    timeMin, timeMax, timeMean, timeMed, timeStd,   \* the holder's fields
    raised, raisedIn, \* the exception that left the last operation, if any
    pc,              \* "new", "ready" (table loaded and prepared), "nodata"
    loads,           \* getData / loadTable calls made on the holder
    calls,           \* outliersExist calls made on the current table
    lastThreshold,   \* the threshold argument of the last outliersExist call
    response,        \* the dict the last completed outliersExist returned
    outlierCount,    \* the outlierCount the last outliersExist computed, per filter
    failedOn,        \* the filter at which the last outliersExist raised
    tsArgs, tsResult \* threeSigma exercised on its own: arguments and result

VARIABLES
    sdssDataHolder,  \* the SDSSdata object of the magnitude bin in work
    count,           \* optimiseStats' cycle counter
    cycles,          \* passes made through the body of optimiseStats' loop
    calPc            \* "idle", "setTable", "statsOfStats", "while", "done"

VARIABLES
    bins,            \* resample: the magnitude steps and the rows in their range
    binNo,           \* resample: steps done
    stats,           \* resample: the Stats table (the local statsOfStats)
    saved            \* the calibration file: written or not, and its rows

VARIABLES
    archiveList,     \* LCExtract: the archives of the run
    objectNo,        \* LCExtract: the object in work
    archiveNo,       \* LCExtract: the archive in work, as index of archiveList
    loopPc,          \* "idle", "running", "finished", "aborted"
    server,          \* what the server did with the last request
    returned,        \* what the last getData handed back
    outliersFound,   \* LCExtract: the dict of that name, per archive key
    objectsList      \* LCExtract: the objects' ZTFOutliers column

VARIABLES
    refCall,         \* refZTFobj exercised on its own: arguments and result
    bandCall,        \* the two tests of outliersExist exercised on one row
    oidListFile,     \* ztf.oidListFile: its frame and the file's rows
    oidCalls,        \* the getOIDZTFinfo calls of the run and the last response
    binning          \* resample's binning exercised on one filter's magnitudes

extVars == <<refCall, bandCall, oidListFile, oidCalls, binning>>

\* No magnitudes binned yet.
NoBinning == [mags |-> <<>>, ranges |-> <<>>, done |-> FALSE]

\* No getOIDZTFinfo call made yet.
NoOidCalls == [asked |-> <<>>, queried |-> <<>>, response |-> Pending]

\* No row tested yet.
NoBandCall ==
    [row |-> [mag |-> 0, magerr |-> 0], median |-> 0, band |-> 0,
     high |-> FALSE, low |-> FALSE, done |-> FALSE]

\* Nothing but the holder and the loops is exercised.
ExtIdle ==
    /\ refCall = [srv |-> "none", tab |-> <<>>, filefracday |-> 0,
                  result |-> Pending]
    /\ bandCall = NoBandCall
    /\ oidListFile = NewOIDListFile(<<>>)
    /\ oidCalls = NoOidCalls
    /\ binning = NoBinning

resVars == <<bins, binNo, stats, saved>>

loopVars == <<archiveList, objectNo, archiveNo, loopPc, server, returned,
              outliersFound, objectsList>>

sdssVars == <<sdssDataHolder, count, cycles, calPc, resVars, loopVars, extVars>>

\* resample is not run.
ResIdle ==
    /\ bins = <<>> /\ binNo = 0 /\ stats = NewStats
    /\ saved = [written |-> FALSE, rows |-> <<>>]

\* LCExtract's loop is not run.
LoopIdle ==
    /\ archiveList = <<>> /\ objectNo = 0 /\ archiveNo = 0
    /\ loopPc = "idle" /\ server = "none" /\ returned = "none"
    /\ outliersFound = <<>> /\ objectsList = <<>>

\* No magnitude bin is in work.
CalIdle ==
    /\ sdssDataHolder = NewSDSSdata(0)
    /\ count = 0 /\ cycles = 0 /\ calPc = "idle"

SdssIdle == CalIdle /\ ResIdle /\ LoopIdle /\ ExtIdle

holderVars == <<archive, table, samples, mad, SD, median, mean,
                filtersReturned, id, aRefmag, altSD, dataStatus, sigma3,
                timeMin, timeMax, timeMean, timeMed, timeStd, raised, raisedIn>>

callVars == <<calls, lastThreshold, response, outlierCount, failedOn>>

vars == <<scenario, holderVars, pc, loads, callVars, tsArgs, tsResult, sdssVars>>

\* The holder as one record, and its fields stored back.
Self ==
    [archive |-> archive, table |-> table, samples |-> samples, mad |-> mad,
     SD |-> SD, median |-> median, mean |-> mean,
     filtersReturned |-> filtersReturned, id |-> id, aRefmag |-> aRefmag,
     altSD |-> altSD, dataStatus |-> dataStatus, sigma3 |-> sigma3,
     timeMin |-> timeMin, timeMax |-> timeMax, timeMean |-> timeMean,
     timeMed |-> timeMed, timeStd |-> timeStd,
     raised |-> raised, raisedIn |-> raisedIn]

Store(h) ==
    /\ archive' = h.archive /\ table' = h.table /\ samples' = h.samples
    /\ mad' = h.mad /\ SD' = h.SD /\ median' = h.median /\ mean' = h.mean
    /\ filtersReturned' = h.filtersReturned /\ id' = h.id
    /\ aRefmag' = h.aRefmag /\ altSD' = h.altSD
    /\ dataStatus' = h.dataStatus /\ sigma3' = h.sigma3
    /\ timeMin' = h.timeMin /\ timeMax' = h.timeMax
    /\ timeMean' = h.timeMean /\ timeMed' = h.timeMed
    /\ timeStd' = h.timeStd
    /\ raised' = h.raised /\ raisedIn' = h.raisedIn

NoCall ==
    /\ calls = 0 /\ lastThreshold = threshold
    /\ response = <<>>
    /\ outlierCount = <<>> /\ failedOn = ""

NoCall_ ==
    /\ calls' = 0 /\ lastThreshold' = threshold
    /\ response' = <<>>
    /\ outlierCount' = <<>> /\ failedOn' = ""

InitHolder(scen, archs) ==
    /\ scenario = scen
    /\ \E a \in archs :
         /\ archive = a
         /\ table = NewHolder(a).table /\ samples = NewHolder(a).samples
         /\ mad = NewHolder(a).mad /\ SD = NewHolder(a).SD
         /\ median = NewHolder(a).median /\ mean = NewHolder(a).mean
         /\ filtersReturned = NewHolder(a).filtersReturned
         /\ id = NewHolder(a).id /\ aRefmag = NewHolder(a).aRefmag
         /\ altSD = NewHolder(a).altSD /\ dataStatus = NewHolder(a).dataStatus
         /\ sigma3 = NewHolder(a).sigma3
         /\ timeMin = NewHolder(a).timeMin /\ timeMax = NewHolder(a).timeMax
         /\ timeMean = NewHolder(a).timeMean /\ timeMed = NewHolder(a).timeMed
         /\ timeStd = NewHolder(a).timeStd
         /\ raised = NewHolder(a).raised /\ raisedIn = NewHolder(a).raisedIn
    /\ pc = "new" /\ loads = 0
    /\ NoCall

\* archiveLCData[a] = AODataClass(AO, archives[a])
Init ==
    /\ InitHolder("flow", {ztf, ptf, panstarrs})
    /\ tsArgs = [archive |-> ztf, filterID |-> "g", mag |-> 0]
    /\ tsResult = Pending
    /\ SdssIdle

InitReload ==
    /\ InitHolder("reload", {ztf, ptf})
    /\ tsArgs = [archive |-> ztf, filterID |-> "g", mag |-> 0]
    /\ tsResult = Pending
    /\ SdssIdle

InitStats ==
    /\ InitHolder("stats", {ztf, ptf, panstarrs})
    /\ tsArgs = [archive |-> ztf, filterID |-> "g", mag |-> 0]
    /\ tsResult = Pending
    /\ SdssIdle

InitThreeSigma ==
    /\ InitHolder("threeSigma", {ztf})
    /\ tsArgs \in TSArgs
    /\ tsResult = Pending
    /\ SdssIdle

\* ------------------------------------------------------------------ actions
\* holder.getData(): the archive answers with a table or with badResponse.
GetData ==
    /\ scenario \in {"flow", "reload", "stats", "timings", "config", "ids"}
    /\ raised = "" /\ loads < LoadLimit(scenario)
    /\ \E resp \in {badResponse} \cup {<<TRUE, t>> : t \in Tables(scenario, archive)} :
         \E lookup \in Lookups(resp[2]) :
            \E r \in {getData(Self, resp, lookup)} :
               /\ Store(r[2])
               /\ pc' = IF Raised(r[2]) THEN pc
                        ELSE IF r[1] THEN "ready" ELSE "nodata"
    /\ loads' = loads + 1
    /\ NoCall_
    /\ UNCHANGED <<scenario, tsArgs, tsResult, sdssVars>>

\* holder.loadTable(): the table saved earlier is read back and prepared.
LoadTable ==
    /\ scenario \in {"flow", "reload", "stats", "timings", "ids"}
    /\ raised = "" /\ loads < LoadLimit(scenario)
    /\ \E t \in Tables(scenario, archive) :
         \E lookup \in Lookups(t) :
            \E h \in {loadTable(Self, t, lookup)} :
               /\ Store(h)
               /\ pc' = IF Raised(h) THEN pc ELSE "ready"
    /\ loads' = loads + 1
    /\ NoCall_
    /\ UNCHANGED <<scenario, tsArgs, tsResult, sdssVars>>

\* holder.outliersExist(archive, threshold) on a loaded and prepared table.
OutliersExist ==
    /\ scenario \in {"flow", "reload", "config"}
    /\ raised = "" /\ pc = "ready" /\ calls < MaxCalls
    /\ \E thr \in ThresholdsOf(scenario) :
         /\ calls = 0 \/ thr = lastThreshold
         /\ \E st \in {outliersExist(Self, thr)} :
            /\ Store(st.h)
            /\ response' = IF Raised(st.h) THEN response ELSE st.response
            /\ outlierCount' = st.outlierCount
            /\ failedOn' = st.failedOn
            /\ lastThreshold' = thr
    /\ calls' = calls + 1
    /\ UNCHANGED <<scenario, pc, loads, tsArgs, tsResult, sdssVars>>

\* threeSigma(archive, filterID, mag) called on its own.
EvalThreeSigma ==
    /\ scenario = "threeSigma"
    /\ \E args \in TSArgs :
         /\ tsArgs' = args
         /\ tsResult' = threeSigma(args.archive, args.filterID, args.mag)
    /\ UNCHANGED <<scenario, holderVars, pc, loads, callVars, sdssVars>>

Next == GetData \/ LoadTable \/ OutliersExist

Spec == Init /\ [][Next]_vars

SpecReload == InitReload /\ [][Next]_vars

InitTimings ==
    /\ InitHolder("timings", {ztf, ptf})
    /\ tsArgs = [archive |-> ztf, filterID |-> "g", mag |-> 0]
    /\ tsResult = Pending
    /\ SdssIdle

NextStats == GetData \/ LoadTable

SpecStats == InitStats /\ [][NextStats]_vars

SpecTimings == InitTimings /\ [][NextStats]_vars

\* resample: a magnitude bin's rows are put into a new SDSSdata object.
InitCalibration ==
    /\ InitHolder("calibration", {ztf})
    /\ tsArgs = [archive |-> ztf, filterID |-> "g", mag |-> 0]
    /\ tsResult = Pending
    /\ \E filterRange \in Bins(MaxStars) :
          sdssDataHolder = setTable(NewSDSSdata(0), filterRange)
    /\ count = 0 /\ cycles = 0 /\ calPc = "setTable"
    /\ ResIdle /\ LoopIdle /\ ExtIdle

holderIdle ==
    UNCHANGED <<scenario, holderVars, pc, loads, callVars, tsArgs, tsResult,
                resVars, loopVars, extVars>>

\* sdssDataHolder.statsOfStats(f)
StatsOfStats ==
    /\ scenario = "calibration" /\ calPc = "setTable"
    /\ sdssDataHolder' = statsOfStats(sdssDataHolder)
    /\ calPc' = "statsOfStats"
    /\ UNCHANGED <<count, cycles>>
    /\ holderIdle

\* sdssDataHolder.optimiseStats(f) up to its while loop.
OptimiseStats ==
    /\ scenario = "calibration" /\ calPc = "statsOfStats"
    /\ IF sdssDataHolder.usedSamples # 0
       THEN calPc' = "while" /\ count' = 0
       ELSE calPc' = "done" /\ count' = count
    /\ UNCHANGED <<sdssDataHolder, cycles>>
    /\ holderIdle

\* One pass through the body of the while loop of optimiseStats.
ClipIteration ==
    /\ scenario = "calibration" /\ calPc = "while"
    /\ whileTest(sdssDataHolder, count)
    /\ \E r \in {whileBody(sdssDataHolder, count)} :
          /\ sdssDataHolder' = r.d
          /\ count' = r.count
          /\ calPc' = IF r.brk THEN "done" ELSE "while"
    /\ cycles' = cycles + 1
    /\ holderIdle

\* The while condition is false: optimiseStats returns.
LeaveLoop ==
    /\ scenario = "calibration" /\ calPc = "while"
    /\ ~whileTest(sdssDataHolder, count)
    /\ calPc' = "done"
    /\ UNCHANGED <<sdssDataHolder, count, cycles>>
    /\ holderIdle

NextCalibration == StatsOfStats \/ OptimiseStats \/ ClipIteration \/ LeaveLoop

SpecCalibration == InitCalibration /\ [][NextCalibration]_vars


\* resample(): statsOfStats = Stats(), the loops not yet entered.
InitResample ==
    /\ InitHolder("resample", {ztf})
    /\ tsArgs = [archive |-> ztf, filterID |-> "g", mag |-> 0]
    /\ tsResult = Pending
    /\ CalIdle /\ LoopIdle /\ ExtIdle
    /\ bins \in BinSteps(MaxBins, MaxBinStars) /\ binNo = 0 /\ stats = NewStats
    /\ saved = [written |-> FALSE, rows |-> <<>>]

\* One magnitude step of resample's loops.
ProcessBin ==
    /\ scenario = "resample" /\ binNo < Len(bins)
    /\ stats' = processBin(stats, bins[binNo + 1].f, bins[binNo + 1].mag,
                           bins[binNo + 1].filterRange)
    /\ binNo' = binNo + 1
    /\ UNCHANGED <<bins, saved>>
    /\ UNCHANGED <<scenario, holderVars, pc, loads, callVars, tsArgs, tsResult,
                   sdssDataHolder, count, cycles, calPc, loopVars, extVars>>

\* After the loops: statsOfStats.removeBlanks(); statsOfStats.save(); the
\* plot shows the same table.
SaveStats ==
    /\ scenario = "resample" /\ binNo = Len(bins) /\ ~saved.written
    /\ stats' = removeBlanks(stats)
    /\ saved' = [written |-> TRUE, rows |-> removeBlanks(stats)]
    /\ UNCHANGED <<bins, binNo>>
    /\ UNCHANGED <<scenario, holderVars, pc, loads, callVars, tsArgs, tsResult,
                   sdssDataHolder, count, cycles, calPc, loopVars, extVars>>

NextResample == ProcessBin \/ SaveStats

SpecResample == InitResample /\ [][NextResample]_vars

\* LCExtract(): the object and archive loops about to start with the first
\* object and the first archive of the list.
InitRetrieve ==
    /\ InitHolder("retrieve", {ztf})
    /\ tsArgs = [archive |-> ztf, filterID |-> "g", mag |-> 0]
    /\ tsResult = Pending
    /\ CalIdle /\ ResIdle /\ ExtIdle
    /\ archiveList \in ArchiveLists
    /\ objectNo = 1 /\ archiveNo = 1
    /\ loopPc = "running" /\ server = "none" /\ returned = "none"
    /\ outliersFound = <<>>
    /\ objectsList = [o \in 1..MaxObjects |-> [ZTFOutliers |-> FALSE]]

\* One pass through the body of `for a in archiveList`: a new holder for the
\* archive, getData and what follows it; an exception ends the program.
ArchiveStep ==
    /\ scenario = "retrieve" /\ loopPc = "running"
    /\ \E srv \in Servers :
         \E tab \in RetrievedTables(archives[archiveList[archiveNo]]) :
            \E lookup \in Lookups(tab) :
               \E r \in {archiveBody(NewHolder(archives[archiveList[archiveNo]]),
                                      srv, tab, lookup)} :
                  /\ Store(r.h)
                  /\ server' = srv /\ returned' = r.returned
                  /\ outliersFound' =
                        IF r.found = <<>> THEN outliersFound
                        ELSE SetItem(outliersFound, archiveList[archiveNo],
                                     r.found)
                  /\ objectsList' =
                        IF r.flagged
                        THEN [objectsList EXCEPT ![objectNo].ZTFOutliers = TRUE]
                        ELSE objectsList
                  /\ IF Raised(r.h)
                     THEN loopPc' = "aborted" /\ UNCHANGED <<objectNo, archiveNo>>
                     ELSE IF archiveNo < Len(archiveList)
                     THEN /\ archiveNo' = archiveNo + 1
                          /\ UNCHANGED <<objectNo, loopPc>>
                     ELSE IF objectNo < MaxObjects
                     THEN /\ objectNo' = objectNo + 1 /\ archiveNo' = 1
                          /\ UNCHANGED loopPc
                     ELSE loopPc' = "finished" /\ UNCHANGED <<objectNo, archiveNo>>
    /\ UNCHANGED archiveList
    /\ UNCHANGED <<scenario, pc, loads, callVars, tsArgs, tsResult,
                   sdssDataHolder, count, cycles, calPc, resVars, extVars>>

NextRetrieve == ArchiveStep

SpecRetrieve == InitRetrieve /\ [][NextRetrieve]_vars

\* LCExtract with whatever config.threshold holds when the run starts.
InitConfig ==
    /\ InitHolder("config", {ztf, ptf})
    /\ tsArgs = [archive |-> ztf, filterID |-> "g", mag |-> 0]
    /\ tsResult = Pending
    /\ SdssIdle

NextConfig == GetData \/ OutliersExist

\* ref: refZTFobj is called for an outlier's time, exposure and magnitude;
\* what the server holds and does decides the outcome.
InitRef ==
    /\ InitHolder("ref", {ztf})
    /\ tsArgs = [archive |-> ztf, filterID |-> "g", mag |-> 0]
    /\ tsResult = Pending
    /\ SdssIdle

RefZTFobj ==
    /\ scenario = "ref"
    /\ \E srv \in Servers : \E tab \in RefTables(MaxRowsRef) :
         \E filefracday \in FracDays :
            refCall' = [srv |-> srv, tab |-> tab, filefracday |-> filefracday,
                        result |-> refZTFobj(srv, tab, filefracday)]
    /\ UNCHANGED <<scenario, holderVars, pc, loads, callVars, tsArgs, tsResult,
                   sdssDataHolder, count, cycles, calPc, resVars, loopVars,
                   bandCall, oidListFile, oidCalls, binning>>

NextRef == RefZTFobj

SpecRef == InitRef /\ [][NextRef]_vars

\* band: the high test and the low test of outliersExist on one row, for a
\* median and a band of either sign (sigma3[f] is whatever threeSigma's
\* polynomial evaluates to); magnitude errors are >= 0.
InitBand ==
    /\ InitHolder("band", {ztf})
    /\ tsArgs = [archive |-> ztf, filterID |-> "g", mag |-> 0]
    /\ tsResult = Pending
    /\ CalIdle /\ ResIdle /\ LoopIdle
    /\ refCall = [srv |-> "none", tab |-> <<>>, filefracday |-> 0,
                  result |-> Pending]
    /\ \E mag \in (0..MaxMag) \cup {NaN} : \E magerr \in 0..MaxErr :
         \E med \in 0..MaxMag : \E band \in (0 - MaxBand)..MaxBand :
            bandCall = [NoBandCall EXCEPT !.row = [mag |-> mag, magerr |-> magerr],
                                          !.median = med, !.band = band]
    /\ oidListFile = NewOIDListFile(<<>>)
    /\ oidCalls = NoOidCalls
    /\ binning = NoBinning

\* upLim = median + sigma3, loLim = median - sigma3 and the two conditions
\* of the table.loc[...] assignments for the row.
BandTests ==
    /\ scenario = "band" /\ ~bandCall.done
    /\ LET upLim == fAdd(bandCall.median, bandCall.band)
           loLim == fSub(bandCall.median, bandCall.band)
       IN bandCall' = [bandCall EXCEPT !.high = highTest(bandCall.row, upLim),
                                       !.low = lowTest(bandCall.row, loLim),
                                       !.done = TRUE]
    /\ UNCHANGED <<scenario, holderVars, pc, loads, callVars, tsArgs, tsResult,
                   sdssDataHolder, count, cycles, calPc, resVars, loopVars,
                   refCall, oidListFile, oidCalls, binning>>

NextBand == BandTests

SpecBand == InitBand /\ [][NextBand]_vars

\* oids: getOIDZTFinfo is called for one id after another; the OID list was
\* read from the file when ztf.py was imported.  An exception ends the run.
InitOids ==
    /\ InitHolder("oids", {ztf})
    /\ tsArgs = [archive |-> ztf, filterID |-> "g", mag |-> 0]
    /\ tsResult = Pending
    /\ CalIdle /\ ResIdle /\ LoopIdle
    /\ refCall = [srv |-> "none", tab |-> <<>>, filefracday |-> 0,
                  result |-> Pending]
    /\ bandCall = NoBandCall
    /\ \E rows \in OIDFiles : oidListFile = NewOIDListFile(rows)
    /\ oidCalls = NoOidCalls
    /\ binning = NoBinning

GetOIDZTFinfo ==
    /\ scenario = "oids"
    /\ Len(oidCalls.asked) < MaxLookups
    /\ oidCalls.response.exc \in {"", "pending"}
    /\ \E oid \in Oids : \E answer \in Answers :
         \E r \in {getOIDZTFinfo(oidListFile, oid, answer)} :
            /\ oidListFile' = r.l
            /\ oidCalls' =
                  [asked |-> Append(oidCalls.asked, oid),
                   queried |-> IF r.queried THEN Append(oidCalls.queried, oid)
                               ELSE oidCalls.queried,
                   response |-> r.response]
    /\ UNCHANGED <<scenario, holderVars, pc, loads, callVars, tsArgs, tsResult,
                   sdssDataHolder, count, cycles, calPc, resVars, loopVars,
                   refCall, bandCall, binning>>

NextOids == GetOIDZTFinfo

SpecOids == InitOids /\ [][NextOids]_vars

\* binning: the bins of resample for the reference magnitudes of one filter.
InitBinning ==
    /\ InitHolder("binning", {ztf})
    /\ tsArgs = [archive |-> ztf, filterID |-> "g", mag |-> 0]
    /\ tsResult = Pending
    /\ CalIdle /\ ResIdle /\ LoopIdle
    /\ refCall = [srv |-> "none", tab |-> <<>>, filefracday |-> 0,
                  result |-> Pending]
    /\ bandCall = NoBandCall
    /\ oidListFile = NewOIDListFile(<<>>)
    /\ oidCalls = NoOidCalls
    /\ \E mags \in RefMags(MaxRefStars, MaxRefMag) :
          binning = [NoBinning EXCEPT !.mags = mags]

\* getRange and the `for mag in arange(minMag, maxMag, config.stepMag)`
\* loop, as far as the rows of each filterRange.
FilterRanges ==
    /\ scenario = "binning" /\ ~binning.done
    /\ binning' = [binning EXCEPT !.ranges = filterRanges(binning.mags),
                                  !.done = TRUE]
    /\ UNCHANGED <<scenario, holderVars, pc, loads, callVars, tsArgs, tsResult,
                   sdssDataHolder, count, cycles, calPc, resVars, loopVars,
                   refCall, bandCall, oidListFile, oidCalls>>

NextBinning == FilterRanges

SpecBinning == InitBinning /\ [][NextBinning]_vars

\* ids: a holder is loaded once with a table of several object ids.
InitIds ==
    /\ InitHolder("ids", {ztf})
    /\ tsArgs = [archive |-> ztf, filterID |-> "g", mag |-> 0]
    /\ tsResult = Pending
    /\ SdssIdle

NextIds == GetData \/ LoadTable

SpecIds == InitIds /\ [][NextIds]_vars

SpecConfig == InitConfig /\ [][NextConfig]_vars

NextThreeSigma == EvalThreeSigma

SpecThreeSigma == InitThreeSigma /\ [][NextThreeSigma]_vars

\* =================================================================== claims
\* The rows (indices) of the current table that carry filter code f.
RowsWith(f) == {i \in DOMAIN table : table[i].filterID = f}

\* The filters the last outliersExist call classified (computed limits and a
\* count for).
Classified == Keys(outlierCount)

\* Row i satisfies the high test / the low test against the limits of its
\* own filter f, as the claim states them: median[f] +/- band[f].
IsHigh(i, f) ==
    fGe(fSub(table[i].mag, table[i].magerr), fAdd(median[f], sigma3[f]))

IsLow(i, f) ==
    fLe(fAdd(table[i].mag, table[i].magerr), fSub(median[f], sigma3[f]))

\* C1, as stated: after outliersExist, every row of a classified filter f is
\* tagged 'high' if (mag - magErr) >= median[f] + band[f], 'low' if
\* (mag + magErr) <= median[f] - band[f], and 'inside' otherwise.
C1_TagsAsStated ==
    calls > 0 =>
      \A f \in Classified : \A i \in RowsWith(f) :
         /\ IsHigh(i, f) => table[i].outlier = "high"
         /\ IsLow(i, f) => table[i].outlier = "low"
         /\ (~IsHigh(i, f) /\ ~IsLow(i, f)) => table[i].outlier = "inside"

\* C1, amended: after outliersExist, every row of a classified filter f is
\* tagged 'low' if (mag + magErr) <= median[f] - band[f]; 'high' if
\* (mag - magErr) >= median[f] + band[f] and the low test fails; 'inside'
\* otherwise.  So a row is an outlier only when its whole error interval
\* lies outside (or on the edge of) the band.
C1_Tags ==
    calls > 0 =>
      \A f \in Classified : \A i \in RowsWith(f) :
         table[i].outlier =
            IF IsLow(i, f) THEN "low"
            ELSE IF IsHigh(i, f) THEN "high" ELSE "inside"

\* C1 witness: a completed call left one classified filter with a row tagged
\* 'high', a row tagged 'low' and a row tagged 'inside'.
C1_Witness ==
    /\ calls > 0 /\ raised = ""
    /\ \E f \in Classified :
         /\ \E i \in RowsWith(f) : table[i].outlier = "high"
         /\ \E i \in RowsWith(f) : table[i].outlier = "low"
         /\ \E i \in RowsWith(f) : table[i].outlier = "inside"

\* The number of rows of filter f tagged other than 'inside'.
TaggedCount(f) == Cardinality({i \in RowsWith(f) : table[i].outlier # "inside"})

\* C2: a completed outliersExist call returns True for a classified filter f
\* exactly when countMin <= outlierCount <= countMax and
\* outlierCount <= floor(samples[f] * countPC), outlierCount being the number
\* of rows of f tagged other than 'inside' (n <= floor(x) iff n <= x for an
\* integer n; countPC is in percent).
C2_Acceptance ==
    (calls > 0 /\ raised = "") =>
      \A f \in Classified :
         response[f] =
            (/\ lastThreshold.countMin <= TaggedCount(f)
             /\ TaggedCount(f) <= lastThreshold.countMax
             /\ 100 * TaggedCount(f) <= samples[f] * lastThreshold.countPC)

\* C2 witness: a call accepted a filter whose outlier count is exactly
\* floor(samples * countPC): one more outlier would have been rejected.
C2_Witness ==
    /\ calls > 0 /\ raised = ""
    /\ \E f \in Classified :
         /\ response[f] /\ TaggedCount(f) > 0
         /\ 100 * (TaggedCount(f) + 1) > samples[f] * lastThreshold.countPC

\* C3: an outliersExist call that follows another one on the same table with
\* the same thresholds raises nothing new and leaves the verdicts and the
\* per-row 'outlier' tags as the first call left them.
C3_Idempotent ==
    [][(calls' = calls + 1 /\ calls > 0 /\ lastThreshold' = lastThreshold)
          => /\ raised' = raised
             /\ response' = response
             /\ Column(table', "outlier") = Column(table, "outlier")]_vars

\* C3 witness: a repeated call with the same thresholds completed on a table
\* with outlier rows and an accepted filter.
C3_Witness ==
    /\ calls > 1 /\ raised = ""
    /\ \E f \in Classified : response[f]
    /\ \E i \in DOMAIN table : table[i].outlier \in {"high", "low"}

\* c[1]*x^(n-1) + ... + c[n]: the polynomial of coefficients c, highest
\* power first, at x.
RECURSIVE Poly(_, _)
Poly(c, x) ==
    IF c = <<>> THEN 0
    ELSE Poly(SubSeq(c, 1, Len(c) - 1), x) * x + c[Len(c)]

\* The filters config.medSD_c holds a fitted curve for.
Fitted == Keys(medSD_c)

\* A threeSigma call was made with a finite magnitude.
TSCalled == tsResult # Pending /\ ~IsNaN(tsArgs.mag)

\* C4, as stated: threeSigma(archive, f, m) for f in 'g', 'r' returns three
\* times the degree-8 polynomial of that filter's nine coefficients, highest
\* power first, at m.
C4_ThreeTimesPolynomial ==
    (TSCalled /\ tsArgs.filterID \in Fitted) =>
       tsResult = Return(3 * Poly(medSD_c[tsArgs.filterID], tsArgs.mag))

\* C5, as stated: threeSigma returns 0 for every filter without a fitted
\* curve, and a value other than 0 for every filter that has one (wherever
\* the filter's polynomial is not itself 0).
C5_ZeroOnlyWithoutCurve ==
    TSCalled =>
       IF tsArgs.filterID \in Fitted
       THEN Poly(medSD_c[tsArgs.filterID], tsArgs.mag) # 0
               => (tsResult.exc = "" /\ tsResult.v # 0)
       ELSE tsResult = Return(0)

\* C6: an outliersExist call never computes limits or a count for filter
\* 'i' and never fails on it, leaves every row of filter 'i' tagged
\* 'inside', and when it returns its verdict for a returned 'i' is False.
C6_FilterISkipped ==
    calls > 0 =>
       /\ "i" \notin Classified
       /\ failedOn # "i"
       /\ \A k \in RowsWith("i") : table[k].outlier = "inside"
       /\ (raised = "" /\ "i" \in Range(filtersReturned))
             => ("i" \in Keys(response) /\ response["i"] = FALSE)

\* C6 witness: a call returned on a table with a row of filter 'i' that lies
\* on or above that filter's median by its whole error interval, and with a
\* classified filter that has outliers.
C6_Witness ==
    /\ calls > 0 /\ raised = ""
    /\ "i" \in Keys(response)
    /\ \E k \in RowsWith("i") :
          fGe(fSub(table[k].mag, table[k].magerr), median["i"])
    /\ \E f \in Classified : TaggedCount(f) > 0

\* C7, as stated: when a returned filter has no median or no band entry,
\* outliersExist raises no error, gives that filter the verdict False and
\* gives every other returned filter a verdict.
C7_MissingBandGivesFalse ==
    calls > 0 =>
       /\ raised = ""
       /\ \A f \in Range(filtersReturned) :
             /\ f \in Keys(response)
             /\ (f \notin Keys(median) \/ f \notin Keys(sigma3))
                   => response[f] = FALSE

\* C8: for a filter that has a median and a band, with a NaN median (its
\* magnitudes are all NaN), outliersExist does not fail on that filter, tags
\* none of its rows 'high' or 'low' and counts 0 outliers for it (a call that
\* returns has counted it).
C8_NaNMedianNoOutliers ==
    calls > 0 =>
       \A f \in (Keys(median) \cap Keys(sigma3)) \ {"i"} :
          (f \in Range(filtersReturned) /\ IsNaN(median[f])) =>
             /\ failedOn # f
             /\ \A k \in RowsWith(f) : table[k].outlier = "inside"
             /\ f \in Classified => outlierCount[f] = 0
             /\ raised = "" => f \in Classified

\* C8 witness: a call returned after classifying a filter whose magnitudes
\* are all NaN.
C8_Witness ==
    /\ calls > 0 /\ raised = ""
    /\ \E f \in Classified :
         /\ IsNaN(median[f])
         /\ RowsWith(f) # {}
         /\ \A k \in RowsWith(f) : IsNaN(table[k].mag)
         /\ outlierCount[f] = 0

\* The sum of the function val over the finite set S.
RECURSIVE SetSum(_, _)
SetSum(S, val) ==
    IF S = {} THEN 0
    ELSE LET k == CHOOSE k \in S : TRUE
         IN val[k] + SetSum(S \ {k}, val)

\* Twice the median of the values val takes on S: the sum of the lower and
\* the upper middle value, found by counting.
TwiceMedian(S, val) ==
    LET n == Cardinality(S)
        lower == CHOOSE x \in {val[k] : k \in S} :
                    /\ 2 * Cardinality({k \in S : val[k] <= x}) >= n
                    /\ 2 * Cardinality({k \in S : val[k] < x}) < n
        upper == CHOOSE x \in {val[k] : k \in S} :
                    /\ 2 * Cardinality({k \in S : val[k] >= x}) >= n
                    /\ 2 * Cardinality({k \in S : val[k] > x}) < n
    IN lower + upper

\* The magnitudes of the rows of filter f in tab, by row number.
MagsOf(tab, f) ==
    [k \in {i \in DOMAIN tab : tab[i].filterID = f} |-> tab[k].mag]

\* The stored statistics st of filter f are the reference statistics of the
\* finite magnitudes x: the count n, the mean sum(x)/n, the median, the
\* sample variance sum((x - mean)^2)/(n - 1), which is
\* sum((n*x - sum(x))^2) / (n^2 * (n - 1)), NaN for n = 1, and the median of
\* |x - median| (in doubled units: of |2x - 2*median|).
IsReference(st, f, x) ==
    LET S == DOMAIN x
        n == Cardinality(S)
        total == SetSum(S, x)
        med2 == TwiceMedian(S, x)
        dev2 == [k \in S |-> fAbs(2 * x[k] - med2)]
        sq == [k \in S |-> (n * x[k] - total) * (n * x[k] - total)]
    IN /\ st.samples[f] = n
       /\ st.mean[f].den # 0 /\ st.mean[f].num * n = total * st.mean[f].den
       /\ 2 * st.median[f] = med2
       /\ IF n < 2 THEN st.SD[f] = NaNRatio
          ELSE /\ st.SD[f].den # 0
               /\ st.SD[f].num * (n * n * (n - 1)) = SetSum(S, sq) * st.SD[f].den
       /\ 4 * st.mad[f] = TwiceMedian(S, dev2)

\* The five statistics of filter f held by st.
StatsOf(st, f) ==
    <<st.samples[f], st.mean[f], st.median[f], st.SD[f], st.mad[f]>>

\* tab with the magnitude of row k replaced by m.
WithMag(tab, k, m) == [tab EXCEPT ![k].mag = m]

\* prepRawData got as far as _getStats on the current table.
StatsStored ==
    /\ loads > 0 /\ table # <<>>
    /\ raisedIn \notin {"setID", "setRefMag"}

PerFilterMappings ==
    <<samples, mad, SD, median, mean, altSD, id,
      timeMin, timeMax, timeMean, timeMed, timeStd>>

\* C10, as stated: after prepRawData has run on the current table, whatever
\* was loaded into the holder before, every per-filter mapping has as keys
\* exactly the filter codes that have rows in the current table.
C10_KeysAreCurrentFilters ==
    (loads > 0 /\ raised = "" /\ pc = "ready") =>
       \A n \in DOMAIN PerFilterMappings :
          Keys(PerFilterMappings[n]) = Range(Column(table, "filterID"))

\* prepRawData ran to its end (analyseTimings included) on the current table.
Prepared == loads > 0 /\ raised = "" /\ pc = "ready"

\* The five gap statistics the holder reports for filter f.
GapStats(f) == <<timeMin[f], timeMax[f], timeMean[f], timeMed[f], timeStd[f]>>

\* Row j of the table is the next observation of its filter after row i:
\* no row of the filter lies strictly between them in the order by
\* (time, row number), and both times are known.
Before(i, j) ==
    \/ table[i].mjd < table[j].mjd
    \/ table[i].mjd = table[j].mjd /\ i < j

IsNext(i, j) ==
    /\ table[i].filterID = table[j].filterID
    /\ ~IsNaN(table[i].mjd) /\ ~IsNaN(table[j].mjd)
    /\ Before(i, j)
    /\ ~\E k \in RowsWith(table[i].filterID) :
          ~IsNaN(table[k].mjd) /\ Before(i, k) /\ Before(k, j)

\* The rows of filter f that have a predecessor in time, and for each the
\* gap to it.
Followers(f) == {j \in RowsWith(f) : \E i \in RowsWith(f) : IsNext(i, j)}

GapTo(f) ==
    [j \in Followers(f) |->
        table[j].mjd - table[CHOOSE i \in RowsWith(f) : IsNext(i, j)].mjd]

\* C11: when analyseTimings has run, every filter that has fewer than 2 rows,
\* or no two rows with a known time (all consecutive differences NaN), has
\* min, max, mean, median and standard deviation of its gaps equal to 0.0,
\* not NaN.
C11_NoGapsGiveZero ==
    Prepared =>
       \A f \in Range(filtersReturned) :
          (Cardinality(RowsWith(f)) < 2 \/ Followers(f) = {}) =>
             /\ GapStats(f) = <<0, 0, Ratio(0, 1), 0, Ratio(0, 1)>>
             /\ ~IsNaN(timeMin[f]) /\ ~IsNaN(timeMax[f]) /\ ~IsNaN(timeMed[f])

\* C11 witness: timings were analysed for a table that has a one-row filter
\* and a filter of two rows whose times are missing.
C11_Witness ==
    /\ Prepared
    /\ \E f, g \in Range(filtersReturned) :
         /\ Cardinality(RowsWith(f)) = 1 /\ ~IsNaN(table[CHOOSE k \in RowsWith(f) : TRUE].mjd)
         /\ Cardinality(RowsWith(g)) = 2
         /\ \A k \in RowsWith(g) : IsNaN(table[k].mjd)
         /\ timeMax[f] = 0 /\ timeMax[g] = 0

\* C12: when analyseTimings has run, for every filter with at least 2 rows
\* (and a gap between known times) timeMin and timeMax are the smallest and
\* the largest gap between observations of that filter that follow one
\* another in time, timeMed is the median of those gaps, the mean is their
\* mean, and none of them is negative - in whatever order the rows are.
C12_GapsOfSortedFilterRows ==
    Prepared =>
       \A f \in Range(filtersReturned) :
          (Cardinality(RowsWith(f)) >= 2 /\ Followers(f) # {}) =>
             LET gap == GapTo(f)
             IN /\ \A j \in Followers(f) : timeMin[f] <= gap[j] /\ gap[j] <= timeMax[f]
                /\ \E j \in Followers(f) : gap[j] = timeMin[f]
                /\ \E j \in Followers(f) : gap[j] = timeMax[f]
                /\ 2 * timeMed[f] = TwiceMedian(Followers(f), gap)
                /\ timeMean[f].den # 0
                /\ timeMean[f].num * Cardinality(Followers(f))
                      = SetSum(Followers(f), gap) * timeMean[f].den
                /\ timeMin[f] >= 0 /\ timeMed[f] >= 0 /\ timeMax[f] >= 0

\* C12 witness: timings were analysed for a filter whose rows are out of
\* time order in the table and apart in time, with a row of another filter
\* whose time lies between them.
C12_Witness ==
    /\ Prepared
    /\ \E f \in Range(filtersReturned) :
         /\ Cardinality(RowsWith(f)) >= 2
         /\ \E i, j \in RowsWith(f) : i < j /\ table[i].mjd > table[j].mjd
                                       /\ ~IsNaN(table[j].mjd)
         /\ timeMin[f] > 0
         /\ \E k \in DOMAIN table \ RowsWith(f) :
               \E i, j \in RowsWith(f) :
                  table[i].mjd < table[k].mjd /\ table[k].mjd < table[j].mjd
                  /\ ~IsNaN(table[i].mjd)

\* The stars (row numbers) of d's table that are flagged included.
IncludedStars(d) == {i \in DOMAIN d.samples : d.samples[i].Included}

\* The stars usedSamples is meant to count: with a light curve that has at
\* least one measurement.
MeasuredStars(d) ==
    {i \in DOMAIN d.samples : d.samples[i].ZTFObject /\ d.samples[i].Samples # 0}

\* medianOfSD, SDofSD and meanOfSD of d are the median, the standard
\* deviation (as its square, sum((n*x - sum(x))^2) / n^3) and the mean of the
\* per-star SD values of the stars S, all of them finite.
IsStatsOver(d, S) ==
    LET x == [i \in S |-> d.samples[i].SD]
        n == Cardinality(S)
        total == SetSum(S, x)
        sq == [i \in S |-> (n * x[i] - total) * (n * x[i] - total)]
    IN /\ d.medianOfSD.den # 0
       /\ 2 * d.medianOfSD.num = TwiceMedian(S, x) * d.medianOfSD.den
       /\ d.meanOfSD.den # 0 /\ d.meanOfSD.num * n = total * d.meanOfSD.den
       /\ d.SDofSD.den # 0
       /\ d.SDofSD.num * (n * n * n) = SetSum(S, sq) * d.SDofSD.den

\* The per-star SD x lies more than sigma standard deviations from the
\* median, by the statistics d holds: (x - median)^2 > sigma^2 * variance.
OutsideOf(x, d) ==
    /\ ~IsNaN(x) /\ d.medianOfSD.den # 0 /\ d.SDofSD.den # 0
    /\ LET dist == x * d.medianOfSD.den - d.medianOfSD.num
       IN dist * dist * d.SDofSD.den
             > sigma * sigma * d.SDofSD.num * d.medianOfSD.den * d.medianOfSD.den

\* The statistics SDSSdata keeps for the calibration table.
KeptStats(d) == <<d.medianOfSD, d.SDofSD, d.meanOfSD, d.usedSamples>>

\* The step is one pass through optimiseStats' loop body.
IsClipStep == cycles' = cycles + 1

\* C13: in each iteration of optimiseStats exactly the stars whose SD is more
\* than sigma * SDofSD above or below medianOfSD stop being included, by the
\* statistics held when the iteration starts; from the second iteration on
\* these are the statistics of the set that survived the iteration before;
\* and when the iteration goes on, the statistics and usedSamples are those
\* of the stars that survived it.
C13_ClipByCurrentStatistics ==
    [][IsClipStep =>
         /\ \A i \in DOMAIN sdssDataHolder.samples :
               sdssDataHolder'.samples[i].Included
                  = (/\ sdssDataHolder.samples[i].Included
                     /\ ~OutsideOf(sdssDataHolder.samples[i].SD, sdssDataHolder))
         /\ count > 0 =>
               /\ IsStatsOver(sdssDataHolder, IncludedStars(sdssDataHolder))
               /\ sdssDataHolder.usedSamples
                     = Cardinality(IncludedStars(sdssDataHolder))
         /\ calPc' = "while" =>
               /\ IsStatsOver(sdssDataHolder', IncludedStars(sdssDataHolder'))
               /\ sdssDataHolder'.usedSamples
                     = Cardinality(IncludedStars(sdssDataHolder'))]_vars

\* C13 witness: two iterations have each excluded a star of a bin of stars
\* that all have a finite SD (the second star was inside the limits of the
\* initial pass), one of the excluded stars lying below the median.
C13_Witness ==
    /\ calPc = "while" /\ count = 2
    /\ \A i \in DOMAIN sdssDataHolder.samples :
          sdssDataHolder.samples[i].Samples > 1
    /\ Cardinality(IncludedStars(sdssDataHolder))
          <= Len(sdssDataHolder.samples) - 2
    /\ \E i \in DOMAIN sdssDataHolder.samples :
          /\ ~sdssDataHolder.samples[i].Included
          /\ sdssDataHolder.samples[i].SD * sdssDataHolder.medianOfSD.den
                < sdssDataHolder.medianOfSD.num

\* C14: optimiseStats always returns: it makes at most optCycles passes
\* through its loop, every position before the return has a next step, and
\* no run goes on for ever; when the cycle bound ends the loop the statistics
\* and usedSamples are those of the last surviving set.
C14_BoundedCycles ==
    /\ [](/\ cycles <= optCycles /\ count <= optCycles
          /\ calPc \in {"setTable", "statsOfStats", "while", "done"}
          /\ (calPc = "done" /\ count = optCycles) =>
                /\ IsStatsOver(sdssDataHolder, IncludedStars(sdssDataHolder))
                /\ sdssDataHolder.usedSamples
                      = Cardinality(IncludedStars(sdssDataHolder)))
    /\ <>[][FALSE]_vars

\* C14 witness: optimiseStats returned because the cycle bound was reached,
\* every pass having excluded stars.
C14_Witness ==
    /\ calPc = "done" /\ count = optCycles /\ cycles = optCycles
    /\ IncludedStars(sdssDataHolder) # {}

\* C15, as stated: when a pass through the loop leaves the number of
\* surviving (included) stars unchanged, the loop stops at once and the
\* statistics are unchanged.
C15_StopsWhenNothingClipped ==
    [][(IsClipStep /\ Cardinality(IncludedStars(sdssDataHolder'))
                         = Cardinality(IncludedStars(sdssDataHolder)))
          => /\ calPc' = "done"
             /\ KeptStats(sdssDataHolder') = KeptStats(sdssDataHolder)]_vars

\* Every star of the table has a light curve of several measurements, and
\* all per-star SD values are the same.
AllIdentical(d) ==
    /\ \A i \in DOMAIN d.samples : d.samples[i].ZTFObject /\ d.samples[i].Samples > 1
    /\ \A i, j \in DOMAIN d.samples : d.samples[i].SD = d.samples[j].SD

\* C15, amended: when the number of stars that survive a pass equals
\* usedSamples - the count the pass before recorded, which after the initial
\* pass is the number of stars with at least one measurement, stars without
\* an SD included - the loop stops at once with the statistics unchanged;
\* for a bin of stars with several measurements each and identical SD no
\* star is excluded, the loop ends in its first pass and usedSamples is the
\* number of stars of the bin.
C15_StopsWhenCountIsUsedSamples ==
    /\ [][(IsClipStep /\ Cardinality(IncludedStars(sdssDataHolder'))
                            = sdssDataHolder.usedSamples)
             => /\ calPc' = "done"
                /\ KeptStats(sdssDataHolder') = KeptStats(sdssDataHolder)
                /\ sdssDataHolder'.meanSamplesLC = sdssDataHolder.meanSamplesLC]_vars
    /\ []((calPc = "done" /\ AllIdentical(sdssDataHolder)) =>
             /\ cycles = 1 /\ count = 0
             /\ IncludedStars(sdssDataHolder) = DOMAIN sdssDataHolder.samples
             /\ sdssDataHolder.usedSamples = Len(sdssDataHolder.samples))

\* C15 witness: the loop stopped in a pass that excluded nothing, after
\* passes that did; the statistics are those of the surviving stars.
C15_Witness ==
    /\ calPc = "done" /\ count > 0 /\ cycles = count + 1
    /\ sdssDataHolder.usedSamples = Cardinality(IncludedStars(sdssDataHolder))
    /\ IncludedStars(sdssDataHolder) # {}

\* C16: when a pass through the loop leaves no star included, the loop stops
\* and medianOfSD, SDofSD, meanOfSD and usedSamples keep the values they had
\* before the pass.
C16_EmptySetKeepsStatistics ==
    [][(IsClipStep /\ IncludedStars(sdssDataHolder') = {})
          => /\ calPc' = "done"
             /\ KeptStats(sdssDataHolder') = KeptStats(sdssDataHolder)
             /\ sdssDataHolder'.medianOfSD.den # 0
             /\ sdssDataHolder'.SDofSD.den # 0]_vars

\* C16 witness: optimiseStats returned with every star excluded, the last of
\* them by a pass of the loop, usedSamples still counting stars.
C16_Witness ==
    /\ calPc = "done" /\ cycles > 0
    /\ IncludedStars(sdssDataHolder) = {}
    /\ sdssDataHolder.usedSamples > 0
    /\ \E i \in DOMAIN sdssDataHolder.samples :
          sdssDataHolder.samples[i].Samples > 1

\* C17: during statsOfStats and optimiseStats the table keeps its rows and a
\* star's included flag never goes from false to true.
C17_IncludedOnlyCleared ==
    [][/\ DOMAIN sdssDataHolder'.samples = DOMAIN sdssDataHolder.samples
       /\ \A i \in DOMAIN sdssDataHolder.samples :
             sdssDataHolder'.samples[i].Included
                => sdssDataHolder.samples[i].Included]_vars

\* C17 witness: after a pass that excluded a star, the table holds stars that
\* are not included although their SD lies inside the present limits.
C17_Witness ==
    /\ calPc = "while" /\ count > 0
    /\ \E i \in DOMAIN sdssDataHolder.samples :
          /\ sdssDataHolder.samples[i].Samples > 1
          /\ ~sdssDataHolder.samples[i].Included
    /\ \E i \in DOMAIN sdssDataHolder.samples :
          /\ ~sdssDataHolder.samples[i].Included
          /\ ~IsNaN(sdssDataHolder.samples[i].SD)
          /\ ~OutsideOf(sdssDataHolder.samples[i].SD, sdssDataHolder)

\* The measured stars of d that have an SD (a star with one measurement has
\* none: its SD is NaN and the nan-statistics pass over it).
MeasuredWithSD(d) == {i \in MeasuredStars(d) : ~IsNaN(d.samples[i].SD)}

\* C18, as stated: after statsOfStats, usedSamples is the number of stars
\* with at least one measurement, and medianOfSD, SDofSD and meanOfSD are
\* the statistics of the SD values of exactly those stars.
C18_InitialPassOverMeasuredStars ==
    calPc = "statsOfStats" =>
       /\ sdssDataHolder.usedSamples = Cardinality(MeasuredStars(sdssDataHolder))
       /\ MeasuredWithSD(sdssDataHolder) # {}
             => IsStatsOver(sdssDataHolder, MeasuredWithSD(sdssDataHolder))

\* The magnitude steps of resample that had rows in their range.
ProcessedBins == {k \in 1..binNo : Len(bins[k].filterRange) # 0}

\* The rows of the saved table that belong to step k.
SavedRowsOf(k) ==
    {j \in DOMAIN saved.rows :
        saved.rows[j].mag = bins[k].mag /\ saved.rows[j].filter = bins[k].f}

\* C19, as stated: every magnitude step with rows that resample processed
\* has exactly one row in the saved calibration table.
C19_EveryBinSaved ==
    saved.written => \A k \in ProcessedBins : Cardinality(SavedRowsOf(k)) = 1

\* The stars of step k that have an SD all have the same SD (or there is at
\* most one such star): the scatter of the SD values of the bin is 0.
NoScatter(k) ==
    \A i, j \in DOMAIN bins[k].filterRange :
       \/ IsNaN(bins[k].filterRange[i].SD) \/ IsNaN(bins[k].filterRange[j].SD)
       \/ bins[k].filterRange[i].SD = bins[k].filterRange[j].SD

\* C19, amended: the saved table holds exactly one row for every processed
\* magnitude step whose SDofSD is not 0 and no row for a step whose SDofSD
\* is 0 (removeBlanks drops it), and no other rows; a saved row carries the
\* number of stars used.
C19_NonBlankBinsSaved ==
    saved.written =>
       /\ \A k \in ProcessedBins :
             /\ Cardinality(SavedRowsOf(k)) = IF NoScatter(k) THEN 0 ELSE 1
             /\ \A j \in SavedRowsOf(k) :
                   /\ saved.rows[j].SDofSD.num # 0
                   /\ saved.rows[j].UsedSamplesMag
                         = Cardinality({i \in DOMAIN bins[k].filterRange :
                                           ~IsNaN(bins[k].filterRange[i].SD)})
       /\ Len(saved.rows) = Cardinality({k \in ProcessedBins : ~NoScatter(k)})

\* C19 witness: the table was saved after a step whose row was kept and a
\* step with rows whose row was dropped.
C19_Witness ==
    /\ saved.written
    /\ \E k \in ProcessedBins : NoScatter(k) /\ SavedRowsOf(k) = {}
    /\ \E k \in ProcessedBins : ~NoScatter(k) /\ SavedRowsOf(k) # {}

\* C20, as stated: when the retrieval from an archive failed (anything but a
\* table with rows came of the request), getData returned False, dataStatus
\* is False, no per-filter statistics are held and the loop was not
\* abandoned.
C20_FailureSkipsArchive ==
    (scenario = "retrieve" /\ server \notin {"none", "ok"}) =>
       /\ returned = "False" /\ loopPc # "aborted" /\ raised = ""
       /\ ~dataStatus
       /\ samples = <<>> /\ median = <<>> /\ mean = <<>> /\ SD = <<>>

\* C21, as stated: a reference-object lookup that finds no row never makes
\* setRefMag (and with it prepRawData) raise: after a load of ZTF data no
\* exception has left setRefMag and every filter of the table has its
\* statistics.
C21_MissingReferenceTolerated ==
    (archive.code = "z" /\ loads > 0 /\ table # <<>>) =>
       /\ raisedIn # "setRefMag"
       /\ raised = "" => Range(Column(table, "filterID")) \subseteq Keys(median)

\* C22, as stated: no classification step runs with a threshold whose
\* countMin lies above its countMax: the configuration is rejected before.
C22_MalformedThresholdRejected ==
    calls > 0 => lastThreshold.countMin <= lastThreshold.countMax

\* C23, as stated: once a table is prepared, the id kept for a filter whose
\* rows carry several object ids is the id with the most rows of that
\* filter, the first of them in row order when several ids have that many.
RowsOfId(f, oid) ==
    Len(SelectSeq(table, LAMBDA row : row.filterID = f /\ row.oid = oid))

FirstRowOf(f, oid) ==
    CHOOSE i \in DOMAIN table :
       /\ table[i].filterID = f /\ table[i].oid = oid
       /\ \A j \in 1..(i - 1) : ~(table[j].filterID = f /\ table[j].oid = oid)

OidsOf(f) == {table[i].oid : i \in {j \in DOMAIN table : table[j].filterID = f}}

C23_MostRowsInFilter ==
    Prepared =>
       \A f \in Range(filtersReturned) :
          Cardinality(OidsOf(f)) > 1 =>
             /\ id[f] \in OidsOf(f)
             /\ \A o \in OidsOf(f) :
                   \/ RowsOfId(f, id[f]) > RowsOfId(f, o)
                   \/ /\ RowsOfId(f, id[f]) = RowsOfId(f, o)
                      /\ FirstRowOf(f, id[f]) <= FirstRowOf(f, o)
\* C24: a refZTFobj call that returns never returns False; on a good
\* response it returns exactly the retrieved rows whose filefracday is the
\* argument, in their order, and on an empty or failed retrieval None.
Called == refCall.srv # "none"

C24_NeverFalse ==
    (Called /\ refCall.result.exc = "") =>
       /\ refCall.result.v # False
       /\ refCall.srv = "ok" =>
             refCall.result.v =
                DataFrame(SelectSeq(refCall.tab,
                   LAMBDA row : row.filefracday = refCall.filefracday))
       /\ refCall.srv \in {"empty", "http400", "http500"} =>
             refCall.result.v = None

\* A good response with rows of two exposures, one of them asked for.
C24_Witness ==
    /\ Called /\ refCall.srv = "ok" /\ refCall.result.exc = ""
    /\ Len(refCall.result.v.rows) > 0
    /\ Len(refCall.result.v.rows) < Len(refCall.tab)
\* C25: after outliersExist, a row of a classified filter that satisfies the
\* high test and the low test is tagged 'low', and the filter's outlierCount
\* is the number of its rows satisfying either test, such a row counted once.
C25_BothTestsEndLow ==
    calls > 0 =>
       \A f \in Classified :
          /\ \A i \in RowsWith(f) :
                (IsHigh(i, f) /\ IsLow(i, f)) => table[i].outlier = "low"
          /\ outlierCount[f] =
                Cardinality({i \in RowsWith(f) : IsHigh(i, f) \/ IsLow(i, f)})

\* A completed call classified a filter with a row satisfying both tests.
C25_Witness ==
    /\ calls > 0 /\ raised = ""
    /\ \E f \in Classified : \E i \in RowsWith(f) :
          IsHigh(i, f) /\ IsLow(i, f) /\ outlierCount[f] > 0
\* C26, as stated: with a magnitude error >= 0 a row satisfies both tests
\* only if the band is negative.
C26_BothOnlyBelowZeroBand ==
    (bandCall.done /\ bandCall.high /\ bandCall.low) => bandCall.band < 0

\* C26, amended: with a magnitude error >= 0 a row satisfies both tests
\* only if the band is negative, or the band is 0, the error is 0 and the
\* magnitude equals the median; and at band 0 such a row does satisfy both.
OnMedian ==
    /\ bandCall.band = 0 /\ bandCall.row.magerr = 0
    /\ bandCall.row.mag = bandCall.median

C26_BothOnlyAtOrBelowZeroBand ==
    bandCall.done =>
       /\ (bandCall.high /\ bandCall.low) => (bandCall.band < 0 \/ OnMedian)
       /\ OnMedian => (bandCall.high /\ bandCall.low)

\* A row on the median without error, tested against a band of 0.
C26_Witness ==
    bandCall.done /\ OnMedian /\ bandCall.high /\ bandCall.low
\* C27, as stated: an object's ZTFOutliers is True only if the dict
\* outliersExist returned for its ZTF data holds a True verdict.
C27_FlagNeedsTrueVerdict ==
    \A o \in DOMAIN objectsList :
       objectsList[o].ZTFOutliers =>
          /\ "z" \in Keys(outliersFound)
          /\ \E f \in Keys(outliersFound["z"]) : outliersFound["z"][f]
\* C28, as stated: a completed outliersExist call returns True for a filter
\* only if at least one row of that filter is tagged 'high' or 'low'.
C28_TrueNeedsTaggedRow ==
    (calls > 0 /\ raised = "") =>
       \A f \in Keys(response) :
          response[f] => \E i \in RowsWith(f) : table[i].outlier \in {"high", "low"}
\* C29, as stated: whatever getOIDZTFinfo calls a run makes, the OID list
\* file (one row per id when the run starts) never holds two rows for one
\* id: an id appended once is answered from the cache afterwards.
C29_OneRowPerId ==
    \A i, j \in DOMAIN oidListFile.file :
       i # j => oidListFile.file[i] # oidListFile.file[j]
\* C30, as stated: every star with a reference magnitude is in the
\* filterRange of exactly one bin.
BinsHolding(i) == {k \in DOMAIN binning.ranges : i \in binning.ranges[k].rows}

C30_ExactlyOneBin ==
    binning.done =>
       \A i \in DOMAIN binning.mags : Cardinality(BinsHolding(i)) = 1
====
